---- MODULE Spec2Model ----
(***************************************************************************)
(* Model of the motivational meme generator: the Ingestor facade, the      *)
(* TextIngestor line parser, the display form of QuoteModel, the two       *)
(* CSVIngestor implementations, PDFIngestor and DocxIngestor, and the      *)
(* caption compositor MemeEngine.make_meme with its wrap_text.             *)
(*                                                                         *)
(* A Python str is modelled as a sequence of one-character strings, so     *)
(* that split, rsplit, strip and lower are computed character by           *)
(* character as the interpreter computes them.                             *)
(***************************************************************************)
EXTENDS Integers, Sequences, FiniteSets, TLC

VARIABLES
    fPath,      \* Ingestor.parse: the path argument
    fExists,    \* Ingestor.parse: what os.path.exists(path) answers
    fPc,        \* Ingestor.parse: position in the method
    fIdx,       \* Ingestor.parse: index of the for loop over the ingestors
    fOutcome,   \* how the parse of the selected ingestor will end
    fInvoked,   \* the ingestors whose parse has been called, in call order
    fResult,    \* Ingestor.parse: value returned or exception raised
    tFile,      \* text file: its lines, without the line terminator
    tPc,        \* TextIngestor.parse: position in the method
    tPos,       \* TextIngestor.parse: number of lines consumed by the loop
    tQuotes,    \* TextIngestor.parse: the local list quotes
    tLocals,    \* TextIngestor.parse: locals of the last loop iteration
    tResult,    \* TextIngestor.parse: value returned or exception raised
    tFault,     \* TextIngestor.parse: open or a read of the file has failed
    rtRecords,  \* round trip: the QuoteModel objects to be displayed
    rtWritten,  \* round trip: number of records written to the text file
    cFile,      \* CSV file: its rows, each a sequence of fields
    cImpl,      \* which CSVIngestor implementation parses cFile
    cPc,        \* CSVIngestor.parse: position in the method
    cPos,       \* CSVIngestor.parse: number of rows of cFile consumed
    cCols,      \* CSVIngestor.parse: the header as the reader holds it
    cQuotes,    \* CSVIngestor.parse: the local list quotes
    cLocals,    \* CSVIngestor.parse: locals of the last loop iteration
    cResult,    \* CSVIngestor.parse: value returned or exception raised
    cFault,     \* CSVIngestor.parse: open or a read of the file has failed
    pWhich,     \* the extraction tools shutil.which finds on the PATH
    pText,      \* PDF file: the lines of text the tool extracts from it
    pPc,        \* PDFIngestor.parse: position in the method
    pTool,      \* PDFIngestor.parse: the local pdf_tool
    pTmp,       \* whether the temporary text file exists
    pLog,       \* PDFIngestor.parse: what it has done to its environment
    pPos,       \* PDFIngestor.parse: number of lines consumed by the loop
    pQuotes,    \* PDFIngestor.parse: the local list quotes
    pLocals,    \* PDFIngestor.parse: locals of the last loop iteration
    pFault,     \* PDFIngestor.parse: what has failed inside the try block
    pResult,    \* PDFIngestor.parse: value returned or exception raised
    dLib,       \* whether python-docx can be imported
    dFile,      \* DOCX file: the texts of its paragraphs
    dPc,        \* DocxIngestor.parse: position in the method
    dPos,       \* DocxIngestor.parse: number of paragraphs consumed
    dQuotes,    \* DocxIngestor.parse: the local list quotes
    dLocals,    \* DocxIngestor.parse: locals of the last loop iteration
    dLog,       \* DocxIngestor.parse: what it has done to its environment
    dResult,    \* DocxIngestor.parse: value returned or exception raised
    mEnv,       \* make_meme: Pillow imported, image decodable, arial.ttf found
    mArgs,      \* make_meme: the source image's size and the arguments
    mPc,        \* make_meme: position in the method
    mImg,       \* make_meme: the size of the local img
    mFontSize,  \* make_meme: the local font_size
    mFont,      \* make_meme: the local font
    mLayout,    \* make_meme: body_lines, author_lines, line_height, if bound
    mIter,      \* make_meme: iterations of the font-size loop begun
    mOut,       \* make_meme: the image saved
    mResult,    \* make_meme: value returned or exception raised
    wArgs,      \* wrap_text: the arguments s, font_obj and max_w
    wPc,        \* wrap_text: position in the function
    wLines,     \* wrap_text: the list returned
    iCall,      \* caller of Ingestor.parse: which call on the file is under way
    iFirst,     \* caller: what the first call returned or raised, as it was then
    iHeld,      \* caller: the list object of the first call, as it is now
    iMutated,   \* caller: whether it has changed that list
    iFault,     \* caller: whether an I/O or tool fault has hit one of the calls
    lFiles,     \* load_quotes: the quote files, each with what Ingestor.parse does
    lEnc,       \* load_quotes: whether sys.stdout can encode the marks printed
    lPc,        \* load_quotes: position in the function
    lIdx,       \* load_quotes: number of files the loop has dealt with
    lQuotes,    \* load_quotes: the local list quotes
    lLog,       \* load_quotes: the messages printed
    lResult,    \* load_quotes: the list returned
    hPc,        \* meme_post: position in the handler, for each request
    hTmp,       \* meme_post: the n of tmp_path of each request, -1 before it is drawn
    hFiles,     \* the files /tmp/tmp_<n>: whether there, written by whom
    hRead,      \* meme_post: what make_meme found at tmp_path, for each request
    hStatic,    \* meme_post: the local static_path of each request
    hResult     \* meme_post: the response or the exception of each request

facadeVars == <<fPath, fExists, fPc, fIdx, fOutcome, fInvoked, fResult>>
textVars == <<tFile, tPc, tPos, tQuotes, tLocals, tResult, tFault>>
rtVars == <<rtRecords, rtWritten>>
csvVars == <<cFile, cImpl, cPc, cPos, cCols, cQuotes, cLocals, cResult, cFault>>
pdfVars == <<pWhich, pText, pPc, pTool, pTmp, pLog, pPos, pQuotes, pLocals, pFault, pResult>>
docxVars == <<dLib, dFile, dPc, dPos, dQuotes, dLocals, dLog, dResult>>
memeVars == <<mEnv, mArgs, mPc, mImg, mFontSize, mFont, mLayout, mIter, mOut, mResult>>
wrapVars == <<wArgs, wPc, wLines>>
callerVars == <<iCall, iFirst, iHeld, iMutated, iFault>>
loadVars == <<lFiles, lEnc, lPc, lIdx, lQuotes, lLog, lResult>>
webVars == <<hPc, hTmp, hFiles, hRead, hStatic, hResult>>
appVars == <<loadVars, webVars>>
vars == <<facadeVars, textVars, rtVars, csvVars, pdfVars, docxVars, memeVars, wrapVars,
          callerVars, appVars>>

\* what each component's actions leave alone
notFacade == <<textVars, rtVars, csvVars, pdfVars, docxVars, memeVars, wrapVars, callerVars,
               appVars>>
notText == <<facadeVars, rtVars, csvVars, pdfVars, docxVars, memeVars, wrapVars, callerVars,
             appVars>>
notTextNorRt == <<facadeVars, csvVars, pdfVars, docxVars, memeVars, wrapVars, callerVars,
                  appVars>>
notCsv == <<facadeVars, textVars, rtVars, pdfVars, docxVars, memeVars, wrapVars, callerVars,
            appVars>>
notPdf == <<facadeVars, textVars, rtVars, csvVars, docxVars, memeVars, wrapVars, callerVars,
            appVars>>
notDocx == <<facadeVars, textVars, rtVars, csvVars, pdfVars, memeVars, wrapVars, callerVars,
             appVars>>
notMeme == <<facadeVars, textVars, rtVars, csvVars, pdfVars, docxVars, wrapVars, callerVars,
             appVars>>
notWrap == <<facadeVars, textVars, rtVars, csvVars, pdfVars, docxVars, memeVars, callerVars,
             appVars>>

(***************************************************************************)
(* Python str operations.                                                  *)
(***************************************************************************)

\* str.lower() on the letters that occur in the model's paths and headers
UpperLetters == <<"A", "B", "C", "D", "E", "F", "H", "K", "O", "P", "Q", "R", "S", "T", "U", "V", "X", "Y">>

LowerLetters == <<"a", "b", "c", "d", "e", "f", "h", "k", "o", "p", "q", "r", "s", "t", "u", "v", "x", "y">>

LowerChar(c) ==
    IF \E i \in 1..Len(UpperLetters) : UpperLetters[i] = c
    THEN LowerLetters[CHOOSE i \in 1..Len(UpperLetters) : UpperLetters[i] = c]
    ELSE c

Lower(s) == [i \in 1..Len(s) |-> LowerChar(s[i])]

\* sub in s
Contains(s, sub) ==
    \E i \in 1..(Len(s) - Len(sub) + 1) : SubSeq(s, i, i + Len(sub) - 1) = sub

\* start index of the last occurrence of sub in s (0 when there is none)
RFind(s, sub) ==
    LET hits == {i \in 1..(Len(s) - Len(sub) + 1) : SubSeq(s, i, i + Len(sub) - 1) = sub}
    IN  IF hits = {} THEN 0 ELSE CHOOSE i \in hits : \A j \in hits : j <= i

\* start index of the first occurrence of sub in s (0 when there is none)
Find(s, sub) ==
    LET hits == {i \in 1..(Len(s) - Len(sub) + 1) : SubSeq(s, i, i + Len(sub) - 1) = sub}
    IN  IF hits = {} THEN 0 ELSE CHOOSE i \in hits : \A j \in hits : i <= j

\* s.split(sep)[-1]: what follows the last sep, the whole of s without one
SplitLast(s, sep) ==
    LET i == RFind(s, sep)
    IN  IF i = 0 THEN s ELSE SubSeq(s, i + Len(sep), Len(s))

\* s.split(sep)[0], the mutant of SplitLast that keeps the first piece
SplitFirst(s, sep) ==
    LET i == Find(s, sep)
    IN  IF i = 0 THEN s ELSE SubSeq(s, 1, i - 1)

(***************************************************************************)
(* IngestorInterface.can_ingest and the allowed_extensions of the four     *)
(* ingestors.                                                              *)
(***************************************************************************)

txt == <<"t", "x", "t">>

csv == <<"c", "s", "v">>

docx == <<"d", "o", "c", "x">>

pdf == <<"p", "d", "f">>

Ingestors == <<"TextIngestor", "CSVIngestor", "DocxIngestor", "PDFIngestor">>

allowed_extensions(ingestor) ==
    CASE ingestor = "TextIngestor" -> {txt}
      [] ingestor = "CSVIngestor" -> {csv}
      [] ingestor = "DocxIngestor" -> {docx}
      [] ingestor = "PDFIngestor" -> {pdf}
      [] OTHER -> {}

\* ext = path.split(".")[-1] without .lower(): a mutant of PathExt
PathExtCaseSensitive(path) == SplitLast(path, <<".">>)

\* ext = path.split(".")[-1].lower()
PathExt(path) == Lower(SplitLast(path, <<".">>))

\* a broken can_ingest that accepts any extension starting with an allowed one
can_ingest_prefix(ingestor, path) ==
    \E e \in allowed_extensions(ingestor) :
        /\ Len(PathExt(path)) >= Len(e)
        /\ SubSeq(PathExt(path), 1, Len(e)) = e

\* ext = path.split(".")[-1].lower(); return ext in cls.allowed_extensions
can_ingest(ingestor, path) == PathExt(path) \in allowed_extensions(ingestor)

(***************************************************************************)
(* Ingestor.parse, the facade.  The paths it is called with are built from *)
(* a directory/stem part and a tail; the file system answers exists or     *)
(* not for each, and the selected ingestor's parse returns or raises.      *)
(***************************************************************************)

PathHeads ==
    { <<>>,
      <<".">>,
      <<"x", ".">>,
      <<"d", "/", "x", ".">>,
      <<"x", ".", "t", "x", "t", ".">>,
      <<"d", ".", "c", "s", "v", "/">> }

PathTails ==
    { txt, csv, docx, pdf,
      <<"T", "X", "T">>, <<"T", "x", "t">>, <<"C", "S", "V">>,
      <<"D", "O", "C", "X">>, <<"P", "D", "F">>, <<"P", "d", "f">>,
      <<"d", "o", "c", "x", "x">>, <<"t", "x">>, <<"j", "p", "g">>, <<>> }

Paths == {h \o t : h \in PathHeads, t \in PathTails} \ {<<>>}

\* what ingestor.parse(path) can do: return a list, or raise
ParseOutcomes == {"ok", "ValueError", "RuntimeError"}

NoResult == [kind |-> "none"]

InitFacade ==
    /\ fPath \in Paths
    /\ fExists \in BOOLEAN
    /\ fPc = "start"
    /\ fIdx = 0
    /\ fOutcome = "none"
    /\ fInvoked = <<>>
    /\ fResult = NoResult

Reqs == {1, 2}

\* load_quotes and meme_post are not running
IdleApps ==
    /\ lFiles = <<>>
    /\ lEnc = TRUE
    /\ lPc = "idle"
    /\ lIdx = 0
    /\ lQuotes = <<>>
    /\ lLog = <<>>
    /\ lResult = NoResult
    /\ hPc = [r \in Reqs |-> "idle"]
    /\ hTmp = [r \in Reqs |-> -1]
    /\ hFiles = <<>>
    /\ hRead = [r \in Reqs |-> "none"]
    /\ hStatic = [r \in Reqs |-> "unset"]
    /\ hResult = [r \in Reqs |-> NoResult]

\* nobody is calling Ingestor.parse a second time
IdleCaller ==
    /\ iCall = 0
    /\ iFirst = NoResult
    /\ iHeld = <<>>
    /\ iMutated = FALSE
    /\ iFault = FALSE

IdleFacade ==
    /\ fPath = <<>>
    /\ fExists = FALSE
    /\ fPc = "idle"
    /\ fIdx = 0
    /\ fOutcome = "none"
    /\ fInvoked = <<>>
    /\ fResult = NoResult
    /\ IdleCaller

\* the existence test skipped: a mutant of FacadeCheckExists
FacadeSkipExists ==
    /\ fPc = "start"
    /\ fPc' = "scan"
    /\ fIdx' = 1
    /\ UNCHANGED <<fPath, fExists, fOutcome, fInvoked, fResult>>
    /\ UNCHANGED notFacade

\* if not os.path.exists(path): raise FileNotFoundError(...)
FacadeCheckExists ==
    /\ fPc = "start"
    /\ IF fExists
       THEN /\ fPc' = "scan"
            /\ fIdx' = 1
            /\ fResult' = fResult
       ELSE /\ fPc' = "done"
            /\ fIdx' = fIdx
            /\ fResult' = [kind |-> "FileNotFoundError", msg |-> "File not found", path |-> fPath]
    /\ UNCHANGED <<fPath, fExists, fOutcome, fInvoked>>
    /\ UNCHANGED notFacade

\* for ingestor in (...): can_ingest(path) is false, next ingestor
FacadeSkip ==
    /\ fPc = "scan"
    /\ fIdx <= Len(Ingestors)
    /\ ~can_ingest(Ingestors[fIdx], fPath)
    /\ fIdx' = fIdx + 1
    /\ UNCHANGED <<fPath, fExists, fPc, fOutcome, fInvoked, fResult>>
    /\ UNCHANGED notFacade

\* can_ingest(path) is true: ingestor.parse(path) is called, and returns or raises
FacadeDispatch ==
    /\ fPc = "scan"
    /\ fIdx <= Len(Ingestors)
    /\ can_ingest(Ingestors[fIdx], fPath)
    /\ fInvoked' = Append(fInvoked, Ingestors[fIdx])
    /\ fOutcome' \in ParseOutcomes
    /\ fPc' = "parsing"
    /\ UNCHANGED <<fPath, fExists, fIdx, fResult>>
    /\ UNCHANGED notFacade

\* return ingestor.parse(path)
FacadeReturn ==
    /\ fPc = "parsing"
    /\ fOutcome = "ok"
    /\ fResult' = [kind |-> "ok", ingestor |-> Ingestors[fIdx], path |-> fPath]
    /\ fPc' = "done"
    /\ UNCHANGED <<fPath, fExists, fIdx, fOutcome, fInvoked>>
    /\ UNCHANGED notFacade

\* the exception swallowed and the loop continued: a mutant of FacadeWrap
FacadeFallThrough ==
    /\ fPc = "parsing"
    /\ fOutcome # "ok"
    /\ fPc' = "scan"
    /\ fIdx' = fIdx + 1
    /\ UNCHANGED <<fPath, fExists, fOutcome, fInvoked, fResult>>
    /\ UNCHANGED notFacade

\* except Exception as e: raise ValueError(f"Failed to parse {path} with {name}: {e}")
FacadeWrap ==
    /\ fPc = "parsing"
    /\ fOutcome # "ok"
    /\ fResult' = [kind |-> "ValueError", msg |-> "Failed to parse", path |-> fPath,
                   ingestor |-> Ingestors[fIdx], cause |-> fOutcome]
    /\ fPc' = "done"
    /\ UNCHANGED <<fPath, fExists, fIdx, fOutcome, fInvoked>>
    /\ UNCHANGED notFacade

\* the loop ends without a match: raise ValueError("No available ingestor ...")
FacadeNoIngestor ==
    /\ fPc = "scan"
    /\ fIdx > Len(Ingestors)
    /\ fResult' = [kind |-> "ValueError", msg |-> "No available ingestor for file type",
                   path |-> fPath]
    /\ fPc' = "done"
    /\ UNCHANGED <<fPath, fExists, fIdx, fOutcome, fInvoked>>
    /\ UNCHANGED notFacade

(***************************************************************************)
(* More str operations, used by the parsers.                               *)
(***************************************************************************)

\* the characters str.strip() removes that occur in the model's files
Whitespace == {" ", "\t", "\n"}

RECURSIVE LStrip(_, _)
\* s.lstrip(chars)
LStrip(s, chars) ==
    IF s # <<>> /\ Head(s) \in chars THEN LStrip(Tail(s), chars) ELSE s

RECURSIVE RStrip(_, _)
\* s.rstrip(chars)
RStrip(s, chars) ==
    IF s # <<>> /\ s[Len(s)] \in chars
    THEN RStrip(SubSeq(s, 1, Len(s) - 1), chars)
    ELSE s

\* one character at most removed from each end: a mutant of StripChars
StripOnce(s, chars) ==
    LET a == IF s # <<>> /\ Head(s) \in chars THEN Tail(s) ELSE s
    IN  IF a # <<>> /\ a[Len(a)] \in chars THEN SubSeq(a, 1, Len(a) - 1) ELSE a

\* s.strip(chars)
StripChars(s, chars) == RStrip(LStrip(s, chars), chars)

\* s.strip()
Strip(s) == StripChars(s, Whitespace)

\* s.split(sep, 1): a split at the first occurrence, a mutant of RSplit1
Split1(s, sep) ==
    LET i == Find(s, sep)
    IN  IF i = 0 THEN <<s>> ELSE <<SubSeq(s, 1, i - 1), SubSeq(s, i + Len(sep), Len(s))>>

\* s.rsplit(sep, 1)
RSplit1(s, sep) ==
    LET i == RFind(s, sep)
    IN  IF i = 0 THEN <<s>> ELSE <<SubSeq(s, 1, i - 1), SubSeq(s, i + Len(sep), Len(s))>>

Dash == <<"-">>

SpacedDash == <<" ", "-", " ">>

(***************************************************************************)
(* QuoteModel.                                                             *)
(***************************************************************************)

QuoteModel(body, author) == [body |-> body, author |-> author]

\* the two fields swapped in the format string: a mutant of QuoteStr
QuoteStrSwapped(q) == <<"\"">> \o q.author \o <<"\"">> \o SpacedDash \o q.body

\* QuoteModel.__str__: f'"{self.body}" - {self.author}'
QuoteStr(q) == <<"\"">> \o q.body \o <<"\"">> \o SpacedDash \o q.author

(***************************************************************************)
(* TextIngestor.parse.                                                     *)
(***************************************************************************)

\* the locals of one iteration of "for line in f", for the raw line read
TextIngestorLine(raw) ==
    LET line == Strip(raw \o <<"\n">>)
    IN  IF line = <<>> \/ ~Contains(line, Dash)
        THEN [raw |-> raw, line |-> line, split |-> FALSE, left |-> <<>>, right |-> <<>>,
              body |-> <<>>, author |-> <<>>, emitted |-> FALSE]
        ELSE LET parts == IF Contains(line, SpacedDash)
                          THEN RSplit1(line, SpacedDash)
                          ELSE RSplit1(line, Dash)
                 body == Strip(StripChars(parts[1], {" ", "\""}))
                 author == Strip(parts[2])
             IN  [raw |-> raw, line |-> line, split |-> TRUE, left |-> parts[1],
                  right |-> parts[2], body |-> body, author |-> author,
                  emitted |-> (body # <<>> /\ author # <<>>)]

NoLocals ==
    [raw |-> <<>>, line |-> <<>>, split |-> FALSE, left |-> <<>>, right |-> <<>>,
     body |-> <<>>, author |-> <<>>, emitted |-> FALSE]

IdleText ==
    /\ tFile = <<>>
    /\ tPc = "idle"
    /\ tPos = 0
    /\ tQuotes = <<>>
    /\ tLocals = NoLocals
    /\ tResult = NoResult
    /\ tFault = FALSE

\* the list of the previous call kept instead of quotes = []: a mutant of TextOpen
TextOpenKeepsList ==
    /\ tPc = "start"
    /\ tPc' = "loop"
    /\ UNCHANGED <<tFile, tPos, tQuotes, tLocals, tResult, tFault>>
    /\ UNCHANGED notText

\* quotes = []; with open(path, "r", encoding="utf-8") as f:
TextOpen ==
    /\ tPc = "start"
    /\ tPc' = "loop"
    /\ tQuotes' = <<>>
    /\ UNCHANGED <<tFile, tPos, tLocals, tResult, tFault>>
    /\ UNCHANGED notText

\* a record put in front of the list: a mutant of TextLoop
TextLoopPrepend ==
    /\ tPc = "loop"
    /\ tPos < Len(tFile)
    /\ LET l == TextIngestorLine(tFile[tPos + 1])
       IN  /\ tLocals' = l
           /\ tQuotes' = IF l.emitted
                         THEN <<QuoteModel(l.body, l.author)>> \o tQuotes
                         ELSE tQuotes
    /\ tPos' = tPos + 1
    /\ UNCHANGED <<tFile, tPc, tResult, tFault>>
    /\ UNCHANGED notText

\* one iteration of "for line in f": skip the line or append a QuoteModel
TextLoop ==
    /\ tPc = "loop"
    /\ tPos < Len(tFile)
    /\ LET l == TextIngestorLine(tFile[tPos + 1])
       IN  /\ tLocals' = l
           /\ tQuotes' = IF l.emitted
                         THEN Append(tQuotes, QuoteModel(l.body, l.author))
                         ELSE tQuotes
    /\ tPos' = tPos + 1
    /\ UNCHANGED <<tFile, tPc, tResult, tFault>>
    /\ UNCHANGED notText

\* open or a read raises: except Exception as e: raise ValueError(...)
TextIOError ==
    /\ \/ tPc = "start"
       \/ tPc = "loop" /\ tPos < Len(tFile)
    /\ tPc' = "done"
    /\ tResult' = [kind |-> "ValueError", msg |-> "Error parsing text file"]
    /\ tFault' = TRUE
    /\ UNCHANGED <<tFile, tPos, tQuotes, tLocals>>
    /\ UNCHANGED notText

\* the file is exhausted: return quotes
TextReturn ==
    /\ tPc = "loop"
    /\ tPos = Len(tFile)
    /\ tPc' = "done"
    /\ tResult' = [kind |-> "ok", quotes |-> tQuotes]
    /\ UNCHANGED <<tFile, tPos, tQuotes, tLocals, tFault>>
    /\ UNCHANGED notText

(***************************************************************************)
(* The text files the parser is run on: every one-line file over a small   *)
(* alphabet, and every file of a few lines drawn from LinePool.            *)
(***************************************************************************)

MaxLineLen == 5

MaxLines == 2

Strs(chars, n) == UNION {[1..k -> chars] : k \in 0..n}

TextChars == {"a", " ", "-", "\"", "\t"}

LinePool ==
    { <<"a", " ", "-", " ", "b">>,
      <<"\"", "c", "\"", " ", "-", " ", "d">>,
      <<"e", "-", "f">>,
      <<"g", " ", "-", " ", "h", " ", "-", " ", "k">>,
      <<"\"", "\"", "q", "\"", "\"", " ", "-", " ", "r">>,
      <<>>,
      <<" ", "\t">>,
      <<"u", " ", "v">>,
      <<"x", " ", "-", " ">>,
      <<" ", "-", " ", "y">> }

TextFiles ==
    {<<l>> : l \in Strs(TextChars, MaxLineLen)}
        \cup UNION {[1..k -> LinePool] : k \in 0..MaxLines}

IdleRt ==
    /\ rtRecords = <<>>
    /\ rtWritten = 0

IdleCsv ==
    /\ cFile = <<>>
    /\ cImpl = "none"
    /\ cPc = "idle"
    /\ cPos = 0
    /\ cCols = <<>>
    /\ cQuotes = <<>>
    /\ cLocals = [valid |-> FALSE]
    /\ cResult = NoResult
    /\ cFault = FALSE

IdlePdf ==
    /\ pWhich = {}
    /\ pText = <<>>
    /\ pPc = "idle"
    /\ pTool = "None"
    /\ pTmp = FALSE
    /\ pLog = <<>>
    /\ pPos = 0
    /\ pQuotes = <<>>
    /\ pLocals = NoLocals
    /\ pFault = "none"
    /\ pResult = NoResult

IdleDocx ==
    /\ dLib = FALSE
    /\ dFile = <<>>
    /\ dPc = "idle"
    /\ dPos = 0
    /\ dQuotes = <<>>
    /\ dLocals = NoLocals
    /\ dLog = <<>>
    /\ dResult = NoResult

\* the parsers of extracted documents are not running
IdleDocs == IdlePdf /\ IdleDocx

NoFont == [face |-> "None", size |-> 0]

Unbound == [bound |-> FALSE]

IdleMeme ==
    /\ mEnv = [pillow |-> FALSE, decodable |-> FALSE, arial |-> FALSE]
    /\ mArgs = [srcW |-> 0, srcH |-> 0, text |-> <<>>, author |-> <<>>, width |-> 0]
    /\ mPc = "idle"
    /\ mImg = [w |-> 0, h |-> 0]
    /\ mFontSize = 0
    /\ mFont = NoFont
    /\ mLayout = Unbound
    /\ mIter = 0
    /\ mOut = [saved |-> FALSE]
    /\ mResult = NoResult

IdleWrap ==
    /\ wArgs = [s |-> <<>>, font_obj |-> NoFont, max_w |-> 0]
    /\ wPc = "idle"
    /\ wLines = <<>>

\* the caption compositor is not running
IdleCaption == IdleMeme /\ IdleWrap

InitText ==
    /\ IdleApps
    /\ tFile \in TextFiles
    /\ tPc = "start"
    /\ tPos = 0
    /\ tQuotes = <<>>
    /\ tLocals = NoLocals
    /\ tResult = NoResult
    /\ tFault = FALSE
    /\ IdleFacade
    /\ IdleRt
    /\ IdleCsv
    /\ IdleDocs
    /\ IdleCaption

NextText == TextOpen \/ TextLoop \/ TextIOError \/ TextReturn

SpecText == InitText /\ [][NextText]_vars

(***************************************************************************)
(* The facade on its own.                                                  *)
(***************************************************************************)

Init ==
    /\ IdleApps
    /\ InitFacade
    /\ IdleCaller
    /\ IdleText
    /\ IdleRt
    /\ IdleCsv
    /\ IdleDocs
    /\ IdleCaption

Next ==
    \/ FacadeCheckExists
    \/ FacadeSkip
    \/ FacadeDispatch
    \/ FacadeReturn
    \/ FacadeWrap
    \/ FacadeNoIngestor

Spec == Init /\ [][Next]_vars

(***************************************************************************)
(* Claims about the facade, checked under Spec.                            *)
(***************************************************************************)

HasDot(path) == \E i \in 1..Len(path) : path[i] = "."

\* the lowercased substring after the last "." of a path that has one
ExtAfterLastDot(path) ==
    LET i == CHOOSE k \in 1..Len(path) :
                 path[k] = "." /\ \A j \in (k + 1)..Len(path) : path[j] # "."
    IN  Lower(SubSeq(path, i + 1, Len(path)))

\* the positions, in priority order, of the ingestors whose set holds ext
Accepting(ext) == {k \in 1..Len(Ingestors) : ext \in allowed_extensions(Ingestors[k])}

SupportedExts == {txt, csv, docx, pdf}

\* C1: on an existing file whose path has a ".", the file is handed to the first
\* ingestor, in the order Text, CSV, Docx, PDF, whose extension set holds the
\* lowercased substring after the last "." (so x.CSV goes to CSVIngestor and
\* x.TXT to TextIngestor), and no two ingestors accept the same path.
C1_DispatchByLowercasedExtension ==
    /\ (fPc \in {"parsing", "done"} /\ fExists /\ HasDot(fPath)) =>
          LET acc == Accepting(ExtAfterLastDot(fPath))
          IN  IF acc = {}
              THEN fInvoked = <<>>
              ELSE fInvoked = <<Ingestors[CHOOSE k \in acc : \A j \in acc : k <= j]>>
    /\ \A a, b \in 1..Len(Ingestors) :
          (can_ingest(Ingestors[a], fPath) /\ can_ingest(Ingestors[b], fPath)) => a = b

\* C1 witness: x.CSV has been handed to the CSV parser
C1_Witness ==
    /\ fPath = <<"x", ".", "C", "S", "V">>
    /\ fPc = "done"
    /\ fInvoked = <<"CSVIngestor">>

\* C2: a path that references no existing file makes Ingestor.parse fail with
\* FileNotFoundError whatever its extension, and no parser is ever invoked for it.
C2_MissingFileIsNotFound ==
    ~fExists =>
        /\ fInvoked = <<>>
        /\ fPc \in {"start", "done"}
        /\ fPc = "done" => (fResult.kind = "FileNotFoundError" /\ fResult.path = fPath)

\* C2 witness: a missing file with a supported extension has failed with NotFound
C2_Witness ==
    /\ ~fExists
    /\ fPc = "done"
    /\ PathExt(fPath) = txt
    /\ fResult.kind = "FileNotFoundError"

\* C3 as stated: every path whose extension is none of txt, csv, docx, pdf fails
\* with the ValueError "No available ingestor" naming the path, no parser invoked.
C3_AnyPathUnsupportedFormat ==
    (fPc = "done" /\ PathExt(fPath) \notin SupportedExts) =>
        /\ fResult.kind = "ValueError"
        /\ fResult.msg = "No available ingestor for file type"
        /\ fResult.path = fPath
        /\ fInvoked = <<>>

\* C3 amended: every path of an existing file whose extension is none of txt, csv,
\* docx, pdf fails with the ValueError "No available ingestor" naming the path,
\* and no parser's parse is invoked.
C3_ExistingPathUnsupportedFormat ==
    (fExists /\ PathExt(fPath) \notin SupportedExts) =>
        /\ fInvoked = <<>>
        /\ fPc = "done" =>
              /\ fResult.kind = "ValueError"
              /\ fResult.msg = "No available ingestor for file type"
              /\ fResult.path = fPath

\* C3 witness: the existing file x.docxx has been refused as unsupported
C3_Witness ==
    /\ fExists
    /\ fPath = <<"x", ".", "d", "o", "c", "x", "x">>
    /\ fPc = "done"
    /\ fResult.kind = "ValueError"

\* C4: when the selected parser raises, the facade raises a ValueError carrying
\* that parser's name and the path, and in every call at most one parser's
\* parse is invoked.
C4_FailureWrappedNoSecondParser ==
    /\ Len(fInvoked) <= 1
    /\ (fPc \in {"scan", "done"} /\ fOutcome \in {"ValueError", "RuntimeError"}) =>
          /\ fPc = "done"
          /\ fResult.kind = "ValueError"
          /\ fResult.msg = "Failed to parse"
          /\ fResult.ingestor = fInvoked[1]
          /\ fResult.path = fPath
          /\ fResult.cause = fOutcome

\* C4 witness: the PDF parser raised a RuntimeError and the facade has wrapped it
C4_Witness ==
    /\ fPc = "done"
    /\ fOutcome = "RuntimeError"
    /\ fInvoked = <<"PDFIngestor">>
    /\ fResult.kind = "ValueError"

(***************************************************************************)
(* Claims about TextIngestor.parse, checked under SpecText.  The expected  *)
(* values are stated with quantifiers over positions, not with the strip   *)
(* and rsplit operators the parser is modelled with.                       *)
(***************************************************************************)

\* s is left, sep, right, and sep does not occur in s further to the right
IsSplitAtLast(s, sep, left, right) ==
    /\ s = left \o sep \o right
    /\ \A i \in (Len(left) + 2)..(Len(s) - Len(sep) + 1) :
          SubSeq(s, i, i + Len(sep) - 1) # sep

\* s without its longest prefix and its longest suffix made of chars
Trimmed(s, chars) ==
    LET keep == {i \in 1..Len(s) : s[i] \notin chars}
    IN  IF keep = {}
        THEN <<>>
        ELSE SubSeq(s, CHOOSE i \in keep : \A j \in keep : i <= j,
                       CHOOSE i \in keep : \A j \in keep : j <= i)

\* the split the rule "last ' - ' if present, else last '-'" makes of s
RuleSplit(s) ==
    LET sep == IF Contains(s, SpacedDash) THEN SpacedDash ELSE Dash
        i == CHOOSE k \in 1..Len(s) :
                 IsSplitAtLast(s, sep, SubSeq(s, 1, k - 1), SubSeq(s, k + Len(sep), Len(s)))
    IN  <<SubSeq(s, 1, i - 1), SubSeq(s, i + Len(sep), Len(s))>>

\* C5 as stated: a non-blank line that contains a separator is split, as it
\* stands in the file, at its last " - " when it contains " - " and at its last
\* "-" otherwise; the left part, cleaned, is the body and the right part,
\* trimmed, is the author of the record the line gives (if both are non-empty).
C5_SplitsFileLineAtLastSeparator ==
    (tPos >= 1 /\ Trimmed(tLocals.raw, Whitespace) # <<>> /\ Contains(tLocals.raw, Dash)) =>
        LET body == Trimmed(Trimmed(RuleSplit(tLocals.raw)[1], {" ", "\""}), Whitespace)
            author == Trimmed(RuleSplit(tLocals.raw)[2], Whitespace)
        IN  /\ tLocals.emitted = (body # <<>> /\ author # <<>>)
            /\ tLocals.emitted => (tLocals.body = body /\ tLocals.author = author)

\* C5 amended: the line, trimmed of surrounding whitespace, is split at its last
\* " - " when the trimmed line contains " - " and at its last "-" otherwise; the
\* left part is taken as the body and the right part as the author.
C5_SplitsTrimmedLineAtLastSeparator ==
    tPos >= 1 =>
        /\ tLocals.line = Trimmed(tLocals.raw, Whitespace)
        /\ tLocals.split = (tLocals.line # <<>> /\ Contains(tLocals.line, Dash))
        /\ tLocals.split =>
              IF Contains(tLocals.line, SpacedDash)
              THEN IsSplitAtLast(tLocals.line, SpacedDash, tLocals.left, tLocals.right)
              ELSE IsSplitAtLast(tLocals.line, Dash, tLocals.left, tLocals.right)

\* C5 witness: a line with two " - " has been split at the second one
C5_Witness ==
    /\ tPos >= 1
    /\ tLocals.line = <<"g", " ", "-", " ", "h", " ", "-", " ", "k">>
    /\ tLocals.left = <<"g", " ", "-", " ", "h">>
    /\ tLocals.right = <<"k">>

\* s without one pair of enclosing double quotes, when it has one
OneQuoteLayerOff(s) ==
    IF Len(s) >= 2 /\ s[1] = "\"" /\ s[Len(s)] = "\""
    THEN SubSeq(s, 2, Len(s) - 1)
    ELSE s

\* C6 as stated: the body of every record is the left part trimmed of surrounding
\* whitespace and of exactly one layer of enclosing double quotes.
C6_BodyLosesOneQuoteLayer ==
    (tPos >= 1 /\ tLocals.emitted) =>
        tLocals.body =
            Trimmed(OneQuoteLayerOff(Trimmed(tLocals.left, Whitespace)), Whitespace)

\* C6 amended: the body of every record is the left part with every leading and
\* trailing space and double-quote character removed, however many layers there
\* are and whether or not they pair up, and then trimmed of surrounding
\* whitespace; the author is the right part trimmed of surrounding whitespace.
C6_BodyLosesAllQuotesAndSpaces ==
    (tPos >= 1 /\ tLocals.split) =>
        /\ tLocals.body = Trimmed(Trimmed(tLocals.left, {" ", "\""}), Whitespace)
        /\ tLocals.author = Trimmed(tLocals.right, Whitespace)
        /\ tLocals.emitted =>
              tQuotes[Len(tQuotes)] = QuoteModel(tLocals.body, tLocals.author)

\* C6 witness: a left part wrapped in two layers of quotes has lost both
C6_Witness ==
    /\ tPos >= 1
    /\ tLocals.emitted
    /\ tLocals.left = <<"\"", "\"", "q", "\"", "\"">>
    /\ tLocals.body = <<"q">>

\* the record the rule makes of a raw line, or <<>> when the line gives none
RuleRecord(raw) ==
    LET line == Trimmed(raw, Whitespace)
    IN  IF line = <<>> \/ ~Contains(line, Dash)
        THEN <<>>
        ELSE LET body == Trimmed(Trimmed(RuleSplit(line)[1], {" ", "\""}), Whitespace)
                 author == Trimmed(RuleSplit(line)[2], Whitespace)
             IN  IF body = <<>> \/ author = <<>>
                 THEN <<>>
                 ELSE <<QuoteModel(body, author)>>

\* C8: the parse returns exactly one record for each line whose two parts are
\* both non-empty after trimming, in the order of the lines; blank lines, lines
\* without a separator and lines with an empty part add nothing and do not stop
\* the parse.
C8_OneRecordPerGoodLineInOrder ==
    (tPc = "done" /\ tResult.kind = "ok") =>
        LET good == {i \in 1..Len(tFile) : RuleRecord(tFile[i]) # <<>>}
            nth(k) == CHOOSE i \in good : Cardinality({j \in good : j <= i}) = k
        IN  /\ tPos = Len(tFile)
            /\ Len(tResult.quotes) = Cardinality(good)
            /\ \A k \in 1..Len(tResult.quotes) :
                  tResult.quotes[k] = RuleRecord(tFile[nth(k)])[1]

\* C8 witness: two good lines around nothing else gave two records in line order
C8_Witness ==
    /\ tPc = "done"
    /\ tFile = << <<"a", " ", "-", " ", "b">>, <<"\"", "c", "\"", " ", "-", " ", "d">> >>
    /\ tResult.kind = "ok"
    /\ tResult.quotes = <<QuoteModel(<<"a">>, <<"b">>), QuoteModel(<<"c">>, <<"d">>)>>

(***************************************************************************)
(* Round trip: records are displayed with str(), one per line of a text    *)
(* file, and the file is parsed by TextIngestor.parse.                     *)
(***************************************************************************)

MaxFieldLen == 2

MaxRecords == 2

FieldChars == {"a", " ", "-", "\""}

BodyExtras ==
    { <<"\"", "a", "\"">>,
      <<"a", " ", "-", " ", "b">>,
      <<"a", "\n", "b">> }

AuthorExtras ==
    { <<"-", " ", "a">>,
      <<"a", " ", "-", " ", "b">>,
      <<"a", "-", "b">> }

\* a record as the parsers build them: both fields trimmed and non-empty
WellFormed(q) ==
    /\ q.body # <<>> /\ q.body = Trimmed(q.body, Whitespace)
    /\ q.author # <<>> /\ q.author = Trimmed(q.author, Whitespace)

RecordPool ==
    { QuoteModel(<<"a">>, <<"b">>),
      QuoteModel(<<"c">>, <<"d">>),
      QuoteModel(<<"e", " ", "f">>, <<"g", "-", "h">>) }

RoundTripInputs ==
    {s \in {<<QuoteModel(b, a)>> : b \in Strs(FieldChars, MaxFieldLen) \cup BodyExtras,
                                   a \in Strs(FieldChars, MaxFieldLen) \cup AuthorExtras} :
        WellFormed(s[1])}
        \cup UNION {[1..k -> RecordPool] : k \in 0..MaxRecords}

RECURSIVE SplitLines(_)
\* the lines a text holds, as "for line in f" delimits them
SplitLines(s) ==
    LET i == Find(s, <<"\n">>)
    IN  IF i = 0
        THEN <<s>>
        ELSE <<SubSeq(s, 1, i - 1)>> \o SplitLines(SubSeq(s, i + 1, Len(s)))

InitRoundTrip ==
    /\ IdleApps
    /\ rtRecords \in RoundTripInputs
    /\ rtWritten = 0
    /\ tFile = <<>>
    /\ tPc = "write"
    /\ tPos = 0
    /\ tQuotes = <<>>
    /\ tLocals = NoLocals
    /\ tResult = NoResult
    /\ tFault = FALSE
    /\ IdleFacade
    /\ IdleCsv
    /\ IdleDocs
    /\ IdleCaption

\* str(record) is written on a line of its own
RoundTripWrite ==
    /\ tPc = "write"
    /\ rtWritten < Len(rtRecords)
    /\ tFile' = tFile \o SplitLines(QuoteStr(rtRecords[rtWritten + 1]))
    /\ rtWritten' = rtWritten + 1
    /\ UNCHANGED <<rtRecords, tPc, tPos, tQuotes, tLocals, tResult, tFault>>
    /\ UNCHANGED notTextNorRt

\* the file is complete and handed to TextIngestor.parse
RoundTripClose ==
    /\ tPc = "write"
    /\ rtWritten = Len(rtRecords)
    /\ tPc' = "start"
    /\ UNCHANGED <<rtRecords, rtWritten, tFile, tPos, tQuotes, tLocals, tResult, tFault>>
    /\ UNCHANGED notTextNorRt

NextRoundTrip ==
    \/ RoundTripWrite
    \/ RoundTripClose
    \/ TextOpen
    \/ TextLoop
    \/ TextIOError
    \/ TextReturn

SpecRoundTrip == InitRoundTrip /\ [][NextRoundTrip]_vars

\* C9 as stated: for every sequence of well-formed records (both fields trimmed
\* and non-empty), parsing the file of their display forms yields the same
\* records, in order.
C9_RoundTripOfWellFormedRecords ==
    (tPc = "done" /\ tResult.kind = "ok") => tResult.quotes = rtRecords

\* the records whose display form the text parser reads back unchanged
RoundTrippable(q) ==
    /\ WellFormed(q)
    /\ q.body[1] # "\"" /\ q.body[Len(q.body)] # "\""
    /\ ~Contains(q.author, SpacedDash)
    /\ ~(Len(q.author) >= 2 /\ q.author[1] = "-" /\ q.author[2] = " ")
    /\ ~Contains(q.body, <<"\n">>) /\ ~Contains(q.author, <<"\n">>)

\* C9 amended: for every sequence of N records whose fields are trimmed, non-empty
\* and hold no line break, whose body neither begins nor ends with a double
\* quote, and whose author does not contain " - " and does not begin with "- ",
\* parsing the file of their display forms yields N records equal, in order, to
\* the originals.
C9_RoundTripOfCleanRecords ==
    (tPc = "done" /\ tResult.kind = "ok"
        /\ \A k \in 1..Len(rtRecords) : RoundTrippable(rtRecords[k])) =>
        tResult.quotes = rtRecords

\* C9 witness: two records have come back from the file in their order
C9_Witness ==
    /\ tPc = "done"
    /\ rtRecords = <<QuoteModel(<<"e", " ", "f">>, <<"g", "-", "h">>),
                     QuoteModel(<<"a">>, <<"b">>)>>
    /\ tResult.kind = "ok"
    /\ tResult.quotes = rtRecords

(***************************************************************************)
(* CSVIngestor.parse, in its two implementations: "csv" reads the file     *)
(* with csv.DictReader (QuoteEngine/csv_ingestor.py), "pandas" with        *)
(* pandas.read_csv (motivacional_meme_generator/QuoteEngine).  A file is   *)
(* its rows, the header first; a row is its fields; a blank line is <<>>.  *)
(***************************************************************************)

\* Python values a csv.DictReader row holds: a str, None, or a list of str
PyStr(s) == [t |-> "str", v |-> s]

PyNone == [t |-> "none", v |-> <<>>]

PyList(l) == [t |-> "list", v |-> l]

\* bool(x)
Truthy(x) == x.t # "none" /\ x.v # <<>>

\* a or b
PyOr(a, b) == IF Truthy(a) THEN a ELSE b

\* the key None, under which DictReader files the fields beyond the header
RestKey == <<"None">>

\* d[k] = x on an insertion-ordered dict, kept as a sequence of entries
DictSet(dict, k, x) ==
    IF \E i \in 1..Len(dict) : dict[i].k = k
    THEN [i \in 1..Len(dict) |-> IF dict[i].k = k THEN [k |-> k, x |-> x] ELSE dict[i]]
    ELSE Append(dict, [k |-> k, x |-> x])

\* d.get(k)
DictGet(dict, k) ==
    IF \E i \in 1..Len(dict) : dict[i].k = k
    THEN dict[CHOOSE i \in 1..Len(dict) : dict[i].k = k].x
    ELSE PyNone

RECURSIVE DictSetAll(_, _, _)
\* d[k] = x for the keys and values given, in order
DictSetAll(dict, keys, values) ==
    IF keys = <<>>
    THEN dict
    ELSE DictSetAll(DictSet(dict, Head(keys), Head(values)), Tail(keys), Tail(values))

Min(a, b) == IF a <= b THEN a ELSE b

\* csv.DictReader.__next__: dict(zip(fieldnames, row)), then restkey or restval
DictReaderRow(fieldnames, row) ==
    LET lf == Len(fieldnames)
        lr == Len(row)
        m == Min(lf, lr)
        zipped == DictSetAll(<<>>, SubSeq(fieldnames, 1, m),
                             [i \in 1..m |-> PyStr(row[i])])
    IN  IF lf < lr
        THEN DictSet(zipped, RestKey, PyList(SubSeq(row, lf + 1, lr)))
        ELSE DictSetAll(zipped, SubSeq(fieldnames, lr + 1, lf),
                        [i \in 1..(lf - lr) |-> PyNone])

nBody == <<"b", "o", "d", "y">>

nAuthor == <<"a", "u", "t", "h", "o", "r">>

nQuote == <<"q", "u", "o", "t", "e">>

nSpeaker == <<"s", "p", "e", "a", "k", "e", "r">>

\* s.capitalize() for the lowercase names above
Capitalized(s) ==
    [i \in 1..Len(s) |->
        IF i = 1 /\ \E k \in 1..Len(LowerLetters) : LowerLetters[k] = s[1]
        THEN UpperLetters[CHOOSE k \in 1..Len(LowerLetters) : LowerLetters[k] = s[1]]
        ELSE s[i]]

\* the locals of one iteration of "for row in reader" of the csv implementation
CsvDictLocals(fieldnames, row) ==
    LET dict == DictReaderRow(fieldnames, row)
        named_body == PyOr(PyOr(PyOr(DictGet(dict, nBody), DictGet(dict, nQuote)),
                                DictGet(dict, Capitalized(nBody))),
                           DictGet(dict, Capitalized(nQuote)))
        named_author == PyOr(PyOr(PyOr(DictGet(dict, nAuthor), DictGet(dict, nSpeaker)),
                                  DictGet(dict, Capitalized(nAuthor))),
                             DictGet(dict, Capitalized(nSpeaker)))
        positional == (~Truthy(named_body) \/ ~Truthy(named_author)) /\ Len(dict) >= 2
        body == IF positional THEN dict[1].x ELSE named_body
        author == IF positional THEN dict[2].x ELSE named_author
        both == Truthy(body) /\ Truthy(author)
        raises == both /\ (body.t = "list" \/ author.t = "list")
    IN  [valid |-> TRUE, row |-> row, raises |-> raises,
         emitted |-> both /\ ~raises,
         body |-> IF both /\ ~raises THEN Strip(body.v) ELSE <<>>,
         author |-> IF both /\ ~raises THEN Strip(author.v) ELSE <<>>]

\* the locals of one iteration of the fallback loop over csv.reader(csvfile)
CsvFallbackLocals(row) ==
    LET both == Len(row) >= 2 /\ Strip(row[1]) # <<>> /\ Strip(row[2]) # <<>>
    IN  [valid |-> TRUE, row |-> row, raises |-> FALSE, emitted |-> both,
         body |-> IF both THEN Strip(row[1]) ELSE <<>>,
         author |-> IF both THEN Strip(row[2]) ELSE <<>>]

\* position of name in names (0 when absent): list.index
IndexOf(names, name) ==
    IF \E i \in 1..Len(names) : names[i] = name
    THEN CHOOSE i \in 1..Len(names) : names[i] = name /\ \A j \in 1..(i - 1) : names[j] # name
    ELSE 0

\* CSVIngestor._find_quote_columns: the (body, author) column names, or <<>>
FindQuoteColumns(columns) ==
    LET lower_columns == [i \in 1..Len(columns) |-> Lower(columns[i])]
        has(n) == IndexOf(lower_columns, n) # 0
        col(n) == columns[IndexOf(lower_columns, n)]
    IN  CASE has(nBody) /\ has(nAuthor) -> <<col(nBody), col(nAuthor)>>
          [] has(nQuote) /\ has(nSpeaker) -> <<col(nQuote), col(nSpeaker)>>
          [] has(nBody) /\ has(nSpeaker) -> <<col(nBody), col(nSpeaker)>>
          [] has(nQuote) /\ has(nAuthor) -> <<col(nQuote), col(nAuthor)>>
          [] OTHER -> <<>>

nan == <<"n", "a", "n">>

\* str(row[...]) of a DataFrame cell: a missing or empty field is NaN
PandasCell(row, i) == IF i > Len(row) \/ row[i] = <<>> THEN nan ELSE row[i]

\* the locals of one iteration of "for _, row in df.iterrows()"
CsvPandasLocals(columns, row) ==
    LET found == FindQuoteColumns(columns)
        bi == IF found # <<>> THEN IndexOf(columns, found[1]) ELSE 1
        ai == IF found # <<>> THEN IndexOf(columns, found[2]) ELSE 2
        body == Strip(PandasCell(row, bi))
        author == Strip(PandasCell(row, ai))
        both == /\ found # <<>> \/ Len(columns) >= 2
                /\ body # <<>> /\ author # <<>>
                /\ body # nan /\ author # nan
    IN  [valid |-> TRUE, row |-> row, raises |-> FALSE, emitted |-> both,
         body |-> IF both THEN body ELSE <<>>,
         author |-> IF both THEN author ELSE <<>>]

(***************************************************************************)
(* The CSV files the parsers are run on.  The field in column i of data    *)
(* row j is built on a letter of its own, so that a record tells which     *)
(* cell it was read from.                                                  *)
(***************************************************************************)

MaxFields == 3

MaxCsvRows == 3

CellLetters ==
    <<"a", "b", "c", "d", "e", "f", "g", "h", "k", "m", "p", "q", "r", "s", "t", "u",
      "v", "w", "x", "y">>

CellLetter(j, i) == CellLetters[(j - 1) * (MaxFields + 1) + i]

\* what column i of data row j may hold: text, nothing, blanks, padded text
CellsAt(j, i) ==
    { <<CellLetter(j, i)>>, <<>>, <<" ">>, <<" ", CellLetter(j, i), " ">> }

\* every data row j of up to MaxFields fields
CsvRows(j) ==
    UNION {{r \in [1..n -> UNION {CellsAt(j, i) : i \in 1..n}] :
               \A i \in 1..n : r[i] \in CellsAt(j, i)} : n \in 0..MaxFields}

\* the data rows j whose fields are all plain text
PlainRows(j) == {[i \in 1..n |-> <<CellLetter(j, i)>>] : n \in 0..MaxFields}

Headers ==
    { <<nBody, nAuthor>>,
      <<nQuote, nSpeaker>>,
      <<nQuote, nAuthor, nSpeaker>>,
      <<nBody, nQuote, nAuthor>>,
      <<Capitalized(nBody), Capitalized(nAuthor)>>,
      << <<"i", "d">>, <<"B", "O", "D", "Y">>, <<"A", "U", "T", "H", "O", "R">> >>,
      << <<"i", "d">>, nQuote, nSpeaker>>,
      <<nSpeaker, nBody>>,
      << <<"x">>, <<"y">> >>,
      <<nBody>> }

CsvFiles ==
    {<<h, r>> : h \in Headers, r \in CsvRows(1)}
        \cup {<<h>> \o rows : h \in Headers,
                              rows \in {rs \in UNION {[1..n -> UNION {PlainRows(j) : j \in 1..n}] :
                                                         n \in 0..MaxCsvRows} :
                                           \A j \in 1..Len(rs) : rs[j] \in PlainRows(j)}}

CsvImpls == {"csv", "pandas"}

\* read_csv's treatment of a row longer than the header (an implicit index
\* column, or a ParserError) is not modelled: pandas is given no such row
InitCsv ==
    /\ IdleApps
    /\ cFile \in CsvFiles
    /\ cImpl \in CsvImpls
    /\ cImpl = "pandas" => \A j \in 2..Len(cFile) : Len(cFile[j]) <= Len(cFile[1])
    /\ cPc = "start"
    /\ cPos = 0
    /\ cCols = <<>>
    /\ cQuotes = <<>>
    /\ cLocals = [valid |-> FALSE]
    /\ cResult = NoResult
    /\ cFault = FALSE
    /\ IdleFacade
    /\ IdleText
    /\ IdleRt
    /\ IdleDocs
    /\ IdleCaption

\* quotes = []; open(path); reader = csv.DictReader(csvfile), which takes the
\* first row as its fieldnames
CsvOpen ==
    /\ cImpl = "csv"
    /\ cPc = "start"
    /\ cPc' = "dict"
    /\ cCols' = cFile[1]
    /\ cPos' = 1
    /\ cQuotes' = <<>>
    /\ UNCHANGED <<cFile, cImpl, cLocals, cResult, cFault>>
    /\ UNCHANGED notCsv

\* a row shorter than the header ends the parse with a ValueError: a mutant of
\* CsvDictRow
CsvDictRowStrict ==
    /\ cPc = "dict"
    /\ cPos < Len(cFile)
    /\ LET row == cFile[cPos + 1]
           l == CsvDictLocals(cCols, row)
       IN  IF Len(row) < Len(cCols)
           THEN /\ cPc' = "done"
                /\ cResult' = [kind |-> "ValueError", msg |-> "Error parsing CSV file"]
                /\ UNCHANGED <<cPos, cQuotes, cLocals>>
           ELSE /\ cPos' = cPos + 1
                /\ cLocals' = l
                /\ cQuotes' = IF l.emitted
                              THEN Append(cQuotes, QuoteModel(l.body, l.author))
                              ELSE cQuotes
                /\ UNCHANGED <<cPc, cResult>>
    /\ UNCHANGED <<cFile, cImpl, cCols, cFault>>
    /\ UNCHANGED notCsv

\* one iteration of "for row in reader": DictReader skips a blank row; a row
\* appends a QuoteModel, or adds nothing, or raises into the fallback
CsvDictRow ==
    /\ cPc = "dict"
    /\ cPos < Len(cFile)
    /\ LET row == cFile[cPos + 1]
           l == CsvDictLocals(cCols, row)
       IN  IF row = <<>>
           THEN /\ cPos' = cPos + 1
                /\ UNCHANGED <<cPc, cQuotes, cLocals>>
           ELSE IF l.raises
           THEN /\ cPc' = "fallback"
                /\ cPos' = 0
                /\ cLocals' = l
                /\ UNCHANGED cQuotes
           ELSE /\ cPos' = cPos + 1
                /\ cLocals' = l
                /\ cQuotes' = IF l.emitted
                              THEN Append(cQuotes, QuoteModel(l.body, l.author))
                              ELSE cQuotes
                /\ UNCHANGED cPc
    /\ UNCHANGED <<cFile, cImpl, cCols, cResult, cFault>>
    /\ UNCHANGED notCsv

\* one iteration of the fallback loop "for row in csv.reader(csvfile)", which
\* starts again at the first row of the file and keeps the list quotes
CsvFallbackRow ==
    /\ cPc = "fallback"
    /\ cPos < Len(cFile)
    /\ LET l == CsvFallbackLocals(cFile[cPos + 1])
       IN  /\ cLocals' = l
           /\ cQuotes' = IF l.emitted
                         THEN Append(cQuotes, QuoteModel(l.body, l.author))
                         ELSE cQuotes
    /\ cPos' = cPos + 1
    /\ UNCHANGED <<cFile, cImpl, cPc, cCols, cResult, cFault>>
    /\ UNCHANGED notCsv

\* quotes = []; df = pd.read_csv(path), the first row giving df.columns
CsvPandasRead ==
    /\ cImpl = "pandas"
    /\ cPc = "start"
    /\ cPc' = "rows"
    /\ cCols' = cFile[1]
    /\ cPos' = 1
    /\ cQuotes' = <<>>
    /\ UNCHANGED <<cFile, cImpl, cLocals, cResult, cFault>>
    /\ UNCHANGED notCsv

\* one iteration of "for _, row in df.iterrows()"; read_csv has dropped the
\* blank lines
CsvPandasRow ==
    /\ cPc = "rows"
    /\ cPos < Len(cFile)
    /\ LET row == cFile[cPos + 1]
           l == CsvPandasLocals(cCols, row)
       IN  IF row = <<>>
           THEN UNCHANGED <<cQuotes, cLocals>>
           ELSE /\ cLocals' = l
                /\ cQuotes' = IF l.emitted
                              THEN Append(cQuotes, QuoteModel(l.body, l.author))
                              ELSE cQuotes
    /\ cPos' = cPos + 1
    /\ UNCHANGED <<cFile, cImpl, cPc, cCols, cResult, cFault>>
    /\ UNCHANGED notCsv

\* the rows are exhausted: return quotes
CsvReturn ==
    /\ cPc \in {"dict", "fallback", "rows"}
    /\ cPos = Len(cFile)
    /\ cPc' = "done"
    /\ cResult' = [kind |-> "ok", quotes |-> cQuotes]
    /\ UNCHANGED <<cFile, cImpl, cPos, cCols, cQuotes, cLocals, cFault>>
    /\ UNCHANGED notCsv

\* open, or a read of "for row in reader", raises in the csv implementation:
\* "except Exception as e" goes on to the fallback, which opens the file again
\* and appends to the same list quotes
CsvIOError ==
    /\ cImpl = "csv"
    /\ \/ cPc = "start" /\ cQuotes' = <<>>
       \/ cPc = "dict" /\ cPos < Len(cFile) /\ cQuotes' = cQuotes
    /\ cPc' = "fallback"
    /\ cPos' = 0
    /\ cFault' = TRUE
    /\ UNCHANGED <<cFile, cImpl, cCols, cLocals, cResult>>
    /\ UNCHANGED notCsv

\* open, or a read of the fallback loop, raises: except Exception as
\* fallback_error: raise ValueError(...)
CsvFallbackIOError ==
    /\ cPc = "fallback"
    /\ cPos < Len(cFile)
    /\ cPc' = "done"
    /\ cResult' = [kind |-> "ValueError", msg |-> "Error parsing CSV file"]
    /\ cFault' = TRUE
    /\ UNCHANGED <<cFile, cImpl, cPos, cCols, cQuotes, cLocals>>
    /\ UNCHANGED notCsv

\* pd.read_csv(path) raises: except Exception as e: raise ValueError(...)
CsvPandasIOError ==
    /\ cImpl = "pandas"
    /\ cPc = "start"
    /\ cPc' = "done"
    /\ cQuotes' = <<>>
    /\ cResult' = [kind |-> "ValueError", msg |-> "Error parsing CSV file"]
    /\ cFault' = TRUE
    /\ UNCHANGED <<cFile, cImpl, cPos, cCols, cLocals>>
    /\ UNCHANGED notCsv

NextCsv ==
    \/ CsvOpen
    \/ CsvDictRow
    \/ CsvFallbackRow
    \/ CsvIOError
    \/ CsvFallbackIOError
    \/ CsvPandasRead
    \/ CsvPandasRow
    \/ CsvPandasIOError
    \/ CsvReturn

SpecCsv == InitCsv /\ [][NextCsv]_vars

\* every parser modelled, each run on its own file
InitParsers == InitText \/ InitCsv

NextParsers == NextText \/ NextCsv

SpecParsers == InitParsers /\ [][NextParsers]_vars

(***************************************************************************)
(* Claims about the records of the parsers and about the CSV columns.      *)
(***************************************************************************)

NonEmptyTrimmed(q) ==
    /\ Trimmed(q.body, Whitespace) # <<>>
    /\ Trimmed(q.author, Whitespace) # <<>>

\* C7: every QuoteModel a parser returns has a body and an author that are both
\* non-empty after trimming, whatever the file holds, fields of blanks included.
C7_RecordsNonEmptyAfterTrimming ==
    /\ (tPc = "done" /\ tResult.kind = "ok") =>
          \A k \in 1..Len(tResult.quotes) : NonEmptyTrimmed(tResult.quotes[k])
    /\ (cPc = "done" /\ cResult.kind = "ok") =>
          \A k \in 1..Len(cResult.quotes) : NonEmptyTrimmed(cResult.quotes[k])

\* C7, the implementations that keep it: the text parser and the pandas CSV parser
C7_HoldsOutsideCsvModule ==
    /\ (tPc = "done" /\ tResult.kind = "ok") =>
          \A k \in 1..Len(tResult.quotes) : NonEmptyTrimmed(tResult.quotes[k])
    /\ (cPc = "done" /\ cResult.kind = "ok" /\ cImpl = "pandas") =>
          \A k \in 1..Len(cResult.quotes) : NonEmptyTrimmed(cResult.quotes[k])

\* the header positions of the pair the priority order resolves, or <<>>
ResolvedPair(header) ==
    LET lower == [i \in 1..Len(header) |-> Lower(header[i])]
        pairs == << <<nBody, nAuthor>>, <<nQuote, nSpeaker>>,
                    <<nBody, nSpeaker>>, <<nQuote, nAuthor>> >>
        ok == {k \in 1..Len(pairs) :
                  IndexOf(lower, pairs[k][1]) # 0 /\ IndexOf(lower, pairs[k][2]) # 0}
        first == CHOOSE k \in ok : \A j \in ok : k <= j
    IN  IF ok = {}
        THEN <<>>
        ELSE <<IndexOf(lower, pairs[first][1]), IndexOf(lower, pairs[first][2])>>

\* the field of a row in a column, empty when the row is too short
Cell(row, i) == IF i <= Len(row) THEN row[i] ELSE <<>>

\* C10: the body and author columns are the first pair, in the order (body,
\* author), (quote, speaker), (body, speaker), (quote, author), whose two names
\* are in the header whatever their case; the body and author of every record
\* are the fields its row has in those two columns, trimmed, and a row whose
\* fields there are non-empty after trimming gives a record; the header
\* quote,speaker over one full row gives the one record of that row.
C10_ColumnsByPairPriority ==
    /\ (cLocals.valid /\ cPc # "fallback" /\ ResolvedPair(cFile[1]) # <<>>) =>
          LET pair == ResolvedPair(cFile[1])
              body == Trimmed(Cell(cLocals.row, pair[1]), Whitespace)
              author == Trimmed(Cell(cLocals.row, pair[2]), Whitespace)
          IN  /\ (body # <<>> /\ author # <<>>) => cLocals.emitted
              /\ cLocals.emitted => (cLocals.body = body /\ cLocals.author = author)
    /\ (cPc = "done" /\ ~cFault /\ cFile = << <<nQuote, nSpeaker>>, <<<<"a">>, <<"b">>>> >>) =>
          (cResult.kind = "ok" /\ cResult.quotes = <<QuoteModel(<<"a">>, <<"b">>)>>)

\* C10, the implementation that keeps it: the pandas CSV parser
C10_HoldsForPandas == cImpl = "pandas" => C10_ColumnsByPairPriority

\* C11: the body and author of a row are read from the first two columns exactly
\* when no pair of names resolves in the header; when a pair resolves, the body
\* and author of every record are the fields of its row in the two columns of
\* that pair and in no other column, and a row whose field in a column of the
\* pair is empty gives no record.
C11_PositionalExactlyWithoutPair ==
    (cLocals.valid /\ cPc # "fallback" /\ Len(cFile[1]) >= 2) =>
        LET pair == ResolvedPair(cFile[1])
            bi == IF pair = <<>> THEN 1 ELSE pair[1]
            ai == IF pair = <<>> THEN 2 ELSE pair[2]
            body == Trimmed(Cell(cLocals.row, bi), Whitespace)
            author == Trimmed(Cell(cLocals.row, ai), Whitespace)
        IN  /\ (body # <<>> /\ author # <<>>) => cLocals.emitted
            /\ cLocals.emitted => (cLocals.body = body /\ cLocals.author = author)
            /\ (Cell(cLocals.row, bi) = <<>> \/ Cell(cLocals.row, ai) = <<>>) =>
                  ~cLocals.emitted

\* C11, the implementation that keeps it: the pandas CSV parser
C11_HoldsForPandas == cImpl = "pandas" => C11_PositionalExactlyWithoutPair

\* the file of the malformed-row scenario: header body,author over a full row,
\* a row of one field and another full row
ShortRowFile ==
    << <<nBody, nAuthor>>,
       << <<CellLetter(1, 1)>>, <<CellLetter(1, 2)>> >>,
       << <<CellLetter(2, 1)>> >>,
       << <<CellLetter(3, 1)>>, <<CellLetter(3, 2)>> >> >>

C13_IOFailureIsParseFailure ==
    /\ (tPc = "done" /\ tFault) => tResult.kind = "ValueError"
    /\ (cPc = "done" /\ cFault) => cResult.kind = "ValueError"

\* C13, the parsers that keep it: the text parser and the pandas CSV parser
C13_HoldsForTextAndPandas ==
    /\ tFault => (tPc = "done" /\ tResult.kind = "ValueError")
    /\ (cFault /\ cImpl = "pandas") => (cPc = "done" /\ cResult.kind = "ValueError")

\* C13 in the csv implementation: a failure of both passes is a ValueError
C13_CsvFailsWhenBothPassesFail ==
    (cImpl = "csv" /\ cPc = "done") =>
        (cResult.kind = "ValueError") = (cFault /\ cPos < Len(cFile))

(***************************************************************************)
(* PDFIngestor.parse.  The environment is the set of tools shutil.which    *)
(* finds, the text the tool extracts from the PDF file, and whether each   *)
(* call to the system (temporary file, tool, open, read) succeeds.  pLog   *)
(* records, in order, what the method has done to its environment.         *)
(***************************************************************************)

Tools == {"pdftotext", "mutool"}

\* the locals of one iteration of "for line in f" over the extracted text
PDFIngestorLine(raw) ==
    LET text == Strip(raw \o <<"\n">>)
    IN  IF text = <<>> \/ ~Contains(text, Dash)
        THEN [raw |-> raw, line |-> text, split |-> FALSE, left |-> <<>>, right |-> <<>>,
              body |-> <<>>, author |-> <<>>, emitted |-> FALSE]
        ELSE LET parts == IF Contains(text, SpacedDash)
                          THEN RSplit1(text, SpacedDash)
                          ELSE RSplit1(text, Dash)
                 body == Strip(StripChars(parts[1], {" ", "\""}))
                 author == Strip(parts[2])
             IN  [raw |-> raw, line |-> text, split |-> TRUE, left |-> parts[1],
                  right |-> parts[2], body |-> body, author |-> author,
                  emitted |-> (body # <<>> /\ author # <<>>)]

MaxPdfLines == 2

PdfLinePool ==
    { <<"a", " ", "-", " ", "b">>,
      <<"\"", "c", "\"", " ", "-", "d">>,
      <<"u", " ", "v">>,
      <<>> }

PdfFiles == UNION {[1..k -> PdfLinePool] : k \in 0..MaxPdfLines}

InitPdf ==
    /\ IdleApps
    /\ pWhich \in SUBSET Tools
    /\ pText \in PdfFiles
    /\ pPc = "start"
    /\ pTool = "None"
    /\ pTmp = FALSE
    /\ pLog = <<>>
    /\ pPos = 0
    /\ pQuotes = <<>>
    /\ pLocals = NoLocals
    /\ pFault = "none"
    /\ pResult = NoResult
    /\ IdleFacade
    /\ IdleText
    /\ IdleRt
    /\ IdleCsv
    /\ IdleDocx
    /\ IdleCaption

\* the temporary file made before the tools are looked for: a mutant of PdfProbe
PdfProbeAfterTemp ==
    /\ pPc = "start"
    /\ pQuotes' = <<>>
    /\ pTmp' = TRUE
    /\ pLog' = <<"create tmp", "which pdftotext", "which mutool">>
    /\ IF pWhich # {}
       THEN /\ pTool' = IF "pdftotext" \in pWhich THEN "pdftotext" ELSE "mutool"
            /\ pPc' = "run"
            /\ pResult' = pResult
       ELSE /\ pTool' = pTool
            /\ pPc' = "done"
            /\ pResult' = [kind |-> "RuntimeError",
                           msg |-> "Neither pdftotext nor mutool found"]
    /\ UNCHANGED <<pWhich, pText, pPos, pLocals, pFault>>
    /\ UNCHANGED notPdf

\* quotes = []; pdf_tool is pdftotext if shutil.which finds it, else mutool if
\* it finds that, else raise RuntimeError("Neither pdftotext nor mutool found")
PdfProbe ==
    /\ pPc = "start"
    /\ pQuotes' = <<>>
    /\ pTmp' = pTmp
    /\ IF "pdftotext" \in pWhich
       THEN /\ pLog' = <<"which pdftotext">>
            /\ pTool' = "pdftotext"
            /\ pPc' = "mktemp"
            /\ pResult' = pResult
       ELSE IF "mutool" \in pWhich
       THEN /\ pLog' = <<"which pdftotext", "which mutool">>
            /\ pTool' = "mutool"
            /\ pPc' = "mktemp"
            /\ pResult' = pResult
       ELSE /\ pLog' = <<"which pdftotext", "which mutool">>
            /\ pTool' = pTool
            /\ pPc' = "done"
            /\ pResult' = [kind |-> "RuntimeError",
                           msg |-> "Neither pdftotext nor mutool found"]
    /\ UNCHANGED <<pWhich, pText, pPos, pLocals, pFault>>
    /\ UNCHANGED notPdf

\* with tempfile.NamedTemporaryFile(suffix=".txt", delete=False) as tmp:
\* tmp_path = tmp.name
PdfMakeTemp ==
    /\ pPc = "mktemp"
    /\ pTmp' = TRUE
    /\ pLog' = Append(pLog, "create tmp")
    /\ pPc' = "run"
    /\ UNCHANGED <<pWhich, pText, pTool, pPos, pQuotes, pLocals, pFault, pResult>>
    /\ UNCHANGED notPdf

\* NamedTemporaryFile raises: the statement is outside the try block, the
\* OSError leaves parse as it is and no file has been made
PdfMakeTempFails ==
    /\ pPc = "mktemp"
    /\ pLog' = Append(pLog, "create tmp failed")
    /\ pFault' = "mktemp"
    /\ pPc' = "done"
    /\ pResult' = [kind |-> "OSError", msg |-> "tempfile"]
    /\ UNCHANGED <<pWhich, pText, pTool, pTmp, pPos, pQuotes, pLocals>>
    /\ UNCHANGED notPdf

\* how the step that runs the tool can end: the tool has run and the text is in
\* the temporary file; the tool exits with a non-zero status
\* (CalledProcessError); starting or running it throws (OSError, or the
\* decoding of mutool's output); and, for mutool, whose output parse writes to
\* the file itself, open(tmp_path, "w") or f.write raises
RunOutcomes(tool) ==
    IF tool = "mutool"
    THEN {"none", "exit", "thrown", "tmpopen", "tmpwrite"}
    ELSE {"none", "exit", "thrown"}

\* mutool run after a failed pdftotext when both are there: a mutant of PdfRun
PdfRunFallsBack ==
    /\ pPc = "run"
    /\ \E outcome \in RunOutcomes(pTool) :
          IF pTool = "pdftotext" /\ outcome # "none" /\ "mutool" \in pWhich
          THEN /\ pFault' = "none"
               /\ pLog' = pLog \o <<"run pdftotext", "open tmp w", "run mutool">>
               /\ pPc' = "read"
          ELSE /\ pFault' = outcome
               /\ pLog' = IF pTool = "pdftotext"
                          THEN Append(pLog, "run pdftotext")
                          ELSE IF outcome = "tmpopen"
                          THEN Append(pLog, "open tmp w")
                          ELSE pLog \o <<"open tmp w", "run mutool">>
               /\ pPc' = IF outcome = "none" THEN "read" ELSE "finally"
    /\ UNCHANGED <<pWhich, pText, pTool, pTmp, pPos, pQuotes, pLocals, pResult>>
    /\ UNCHANGED notPdf

\* if pdf_tool == "pdftotext": subprocess.run(["pdftotext", path, tmp_path],
\* check=True, ...) else: with open(tmp_path, "w") as f: result =
\* subprocess.run(["mutool", ...], check=True); f.write(result.stdout)
PdfRun ==
    /\ pPc = "run"
    /\ \E outcome \in RunOutcomes(pTool) :
          /\ pFault' = outcome
          /\ pLog' = IF pTool = "pdftotext"
                     THEN Append(pLog, "run pdftotext")
                     ELSE IF outcome = "tmpopen"
                     THEN Append(pLog, "open tmp w")
                     ELSE pLog \o <<"open tmp w", "run mutool">>
          /\ pPc' = IF outcome = "none" THEN "read" ELSE "finally"
    /\ UNCHANGED <<pWhich, pText, pTool, pTmp, pPos, pQuotes, pLocals, pResult>>
    /\ UNCHANGED notPdf

\* one iteration of "for line in f" over the temporary file
PdfLoop ==
    /\ pPc = "read"
    /\ pPos < Len(pText)
    /\ LET l == PDFIngestorLine(pText[pPos + 1])
       IN  /\ pLocals' = l
           /\ pQuotes' = IF l.emitted
                         THEN Append(pQuotes, QuoteModel(l.body, l.author))
                         ELSE pQuotes
    /\ pPos' = pPos + 1
    /\ pLog' = IF pPos = 0 THEN Append(pLog, "open tmp r") ELSE pLog
    /\ UNCHANGED <<pWhich, pText, pPc, pTool, pTmp, pFault, pResult>>
    /\ UNCHANGED notPdf

\* open(tmp_path, "r") or a read of the temporary file raises
PdfReadError ==
    /\ pPc = "read"
    /\ pPos = 0 \/ pPos < Len(pText)
    /\ pFault' = "read"
    /\ pLog' = IF pPos = 0 THEN Append(pLog, "open tmp r") ELSE pLog
    /\ pPc' = "finally"
    /\ UNCHANGED <<pWhich, pText, pTool, pTmp, pPos, pQuotes, pLocals, pResult>>
    /\ UNCHANGED notPdf

\* the temporary file is exhausted: the try block ends
PdfLoopEnd ==
    /\ pPc = "read"
    /\ pPos = Len(pText)
    /\ pLog' = IF pPos = 0 THEN Append(pLog, "open tmp r") ELSE pLog
    /\ pPc' = "finally"
    /\ UNCHANGED <<pWhich, pText, pTool, pTmp, pPos, pQuotes, pLocals, pFault, pResult>>
    /\ UNCHANGED notPdf

\* what parse raises for a failure inside the try block: except
\* subprocess.CalledProcessError: raise RuntimeError(f"{pdf_tool} failed: ...");
\* except Exception: raise ValueError(f"Error parsing PDF file {path}: ...")
PdfRaised(fault, tool) ==
    IF fault = "exit"
    THEN [kind |-> "RuntimeError", msg |-> "failed", tool |-> tool]
    ELSE [kind |-> "ValueError", msg |-> "Error parsing PDF file"]

\* the file removed only when the try block ended well: a mutant of PdfFinally
PdfFinallyKeepsOnError ==
    /\ pPc = "finally"
    /\ pTmp' = IF pFault = "none" THEN FALSE ELSE pTmp
    /\ pLog' = IF pTmp /\ pFault = "none" THEN Append(pLog, "remove tmp") ELSE pLog
    /\ pResult' = IF pFault = "none"
                  THEN [kind |-> "ok", quotes |-> pQuotes]
                  ELSE PdfRaised(pFault, pTool)
    /\ pPc' = "done"
    /\ UNCHANGED <<pWhich, pText, pTool, pPos, pQuotes, pLocals, pFault>>
    /\ UNCHANGED notPdf

\* finally: if os.path.exists(tmp_path): os.remove(tmp_path); then the
\* exception is raised, or quotes returned
PdfFinally ==
    /\ pPc = "finally"
    /\ pTmp' = FALSE
    /\ pLog' = IF pTmp THEN Append(pLog, "remove tmp") ELSE pLog
    /\ pResult' = IF pFault = "none"
                  THEN [kind |-> "ok", quotes |-> pQuotes]
                  ELSE PdfRaised(pFault, pTool)
    /\ pPc' = "done"
    /\ UNCHANGED <<pWhich, pText, pTool, pPos, pQuotes, pLocals, pFault>>
    /\ UNCHANGED notPdf

NextPdf ==
    \/ PdfProbe
    \/ PdfMakeTemp
    \/ PdfMakeTempFails
    \/ PdfRun
    \/ PdfLoop
    \/ PdfReadError
    \/ PdfLoopEnd
    \/ PdfFinally

SpecPdf == InitPdf /\ [][NextPdf]_vars

(***************************************************************************)
(* DocxIngestor.parse.  The environment is whether python-docx can be      *)
(* imported and whether Document(path) can read the file; the file is the  *)
(* texts of its paragraphs.                                                *)
(***************************************************************************)

\* the double quotes left on the body: a mutant of DocxIngestorPara
DocxIngestorParaKeepsQuotes(raw) ==
    LET text == Strip(raw)
    IN  IF text = <<>> \/ ~Contains(text, Dash)
        THEN [raw |-> raw, line |-> text, split |-> FALSE, left |-> <<>>, right |-> <<>>,
              body |-> <<>>, author |-> <<>>, emitted |-> FALSE]
        ELSE LET parts == IF Contains(text, SpacedDash)
                          THEN RSplit1(text, SpacedDash)
                          ELSE RSplit1(text, Dash)
                 body == Strip(parts[1])
                 author == Strip(parts[2])
             IN  [raw |-> raw, line |-> text, split |-> TRUE, left |-> parts[1],
                  right |-> parts[2], body |-> body, author |-> author,
                  emitted |-> (body # <<>> /\ author # <<>>)]

\* the locals of one iteration of "for para in doc.paragraphs"
DocxIngestorPara(raw) ==
    LET text == Strip(raw)
    IN  IF text = <<>> \/ ~Contains(text, Dash)
        THEN [raw |-> raw, line |-> text, split |-> FALSE, left |-> <<>>, right |-> <<>>,
              body |-> <<>>, author |-> <<>>, emitted |-> FALSE]
        ELSE LET parts == IF Contains(text, SpacedDash)
                          THEN RSplit1(text, SpacedDash)
                          ELSE RSplit1(text, Dash)
                 body == Strip(StripChars(parts[1], {" ", "\""}))
                 author == Strip(parts[2])
             IN  [raw |-> raw, line |-> text, split |-> TRUE, left |-> parts[1],
                  right |-> parts[2], body |-> body, author |-> author,
                  emitted |-> (body # <<>> /\ author # <<>>)]

MaxParas == 2

ParaPool ==
    { <<"a", " ", "-", " ", "b">>,
      <<"\"", "c", "\"", " ", "-", "d">>,
      <<"e", "\n", "f", " ", "-", " ", "g">>,
      <<"u", " ", "v">>,
      <<" ">>,
      <<>> }

DocxFiles == UNION {[1..k -> ParaPool] : k \in 0..MaxParas}

InitDocx ==
    /\ IdleApps
    /\ dLib \in BOOLEAN
    /\ dFile \in DocxFiles
    /\ dPc = "start"
    /\ dPos = 0
    /\ dQuotes = <<>>
    /\ dLocals = NoLocals
    /\ dLog = <<>>
    /\ dResult = NoResult
    /\ IdleFacade
    /\ IdleText
    /\ IdleRt
    /\ IdleCsv
    /\ IdlePdf
    /\ IdleCaption

\* quotes = []; try: from docx import Document; except ImportError: raise
\* RuntimeError("python-docx is required to parse docx files")
DocxImport ==
    /\ dPc = "start"
    /\ dQuotes' = <<>>
    /\ dLog' = <<"import docx">>
    /\ IF dLib
       THEN dPc' = "open" /\ dResult' = dResult
       ELSE /\ dPc' = "done"
            /\ dResult' = [kind |-> "RuntimeError", msg |-> "python-docx is required"]
    /\ UNCHANGED <<dLib, dFile, dPos, dLocals>>
    /\ UNCHANGED notDocx

\* doc = Document(path)
DocxOpen ==
    /\ dPc = "open"
    /\ dLog' = Append(dLog, "Document(path)")
    /\ dPc' = "loop"
    /\ UNCHANGED <<dLib, dFile, dPos, dQuotes, dLocals, dResult>>
    /\ UNCHANGED notDocx

\* Document(path) raises: except Exception as e: raise ValueError(...)
DocxOpenError ==
    /\ dPc = "open"
    /\ dLog' = Append(dLog, "Document(path)")
    /\ dPc' = "done"
    /\ dResult' = [kind |-> "ValueError", msg |-> "Error parsing DOCX file"]
    /\ UNCHANGED <<dLib, dFile, dPos, dQuotes, dLocals>>
    /\ UNCHANGED notDocx

\* one iteration of "for para in doc.paragraphs"
DocxLoop ==
    /\ dPc = "loop"
    /\ dPos < Len(dFile)
    /\ LET l == DocxIngestorPara(dFile[dPos + 1])
       IN  /\ dLocals' = l
           /\ dQuotes' = IF l.emitted
                         THEN Append(dQuotes, QuoteModel(l.body, l.author))
                         ELSE dQuotes
    /\ dPos' = dPos + 1
    /\ UNCHANGED <<dLib, dFile, dPc, dLog, dResult>>
    /\ UNCHANGED notDocx

\* the paragraphs are exhausted: return quotes
DocxReturn ==
    /\ dPc = "loop"
    /\ dPos = Len(dFile)
    /\ dPc' = "done"
    /\ dResult' = [kind |-> "ok", quotes |-> dQuotes]
    /\ UNCHANGED <<dLib, dFile, dPos, dQuotes, dLocals, dLog>>
    /\ UNCHANGED notDocx

NextDocx ==
    \/ DocxImport
    \/ DocxOpen
    \/ DocxOpenError
    \/ DocxLoop
    \/ DocxReturn

\* the two parsers that depend on an optional capability, each on its own file
InitDocs == InitPdf \/ InitDocx

NextDocs == NextPdf \/ NextDocx

SpecDocs == InitDocs /\ [][NextDocs]_vars

(***************************************************************************)
(* Claims about PDFIngestor.parse and DocxIngestor.parse.                  *)
(***************************************************************************)

\* C14: once PDFIngestor.parse has finished, by returning records, by raising
\* the RuntimeError of a failed tool or by raising for a later failure, the
\* temporary text file it created does not exist.
C14_TempFileRemovedOnEveryExit ==
    /\ pPc = "done" => ~pTmp
    /\ (pPc = "done" /\ \E i \in 1..Len(pLog) : pLog[i] = "create tmp") =>
          pLog[Len(pLog)] = "remove tmp"

\* C14 witness: the tool failed after the temporary file was made, and the file
\* is gone
C14_Witness ==
    /\ pPc = "done"
    /\ pFault = "exit"
    /\ pResult.kind = "RuntimeError"
    /\ \E i \in 1..Len(pLog) : pLog[i] = "create tmp"
    /\ ~pTmp

\* C15: without python-docx DocxIngestor.parse, and without pdftotext and
\* mutool PDFIngestor.parse, raises RuntimeError, not the ValueError raised for
\* a file that cannot be read, and has done nothing else before: the input
\* file is not opened, no temporary file is made, no tool is run.
C15_MissingCapabilityFailsFirst ==
    /\ pWhich = {} =>
          /\ ~pTmp
          /\ \A i \in 1..Len(pLog) : pLog[i] \in {"which pdftotext", "which mutool"}
          /\ pPc = "done" => pResult.kind = "RuntimeError"
    /\ ~dLib =>
          /\ \A i \in 1..Len(dLog) : dLog[i] = "import docx"
          /\ dPc = "done" => dResult.kind = "RuntimeError"
    /\ (pPc = "done" /\ pFault = "read") => pResult.kind = "ValueError"
    /\ (dPc = "done" /\ dLib /\ dResult.kind # "ok") => dResult.kind = "ValueError"

\* C15 witness: python-docx is missing and the parse has failed on the import
C15_Witness ==
    /\ ~dLib
    /\ dPc = "done"
    /\ dFile # <<>>
    /\ dResult.kind = "RuntimeError"
    /\ dLog = <<"import docx">>

\* C16: when the invocation of the tool fails, by a non-zero exit status or by
\* an error thrown while starting or running it, PDFIngestor.parse raises the
\* RuntimeError that names the tool and never a ValueError; a ValueError is
\* raised only for a failure that comes after the extraction succeeded.
C16_ToolFailureIsRuntimeError ==
    pPc = "done" =>
        /\ pFault \in {"exit", "thrown"} =>
              (pResult.kind = "RuntimeError" /\ pResult.tool = pTool)
        /\ pResult.kind = "ValueError" => pFault = "read"

\* C16 for the failure the code singles out: a non-zero exit status
C16_HoldsForNonZeroExit ==
    (pPc = "done" /\ pFault = "exit") =>
        (pResult.kind = "RuntimeError" /\ pResult.tool = pTool)

(***************************************************************************)
(* MemeEngine.make_meme and its local function wrap_text.  Sizes are in    *)
(* pixels.  Pillow's text measurement is modelled by a width per character *)
(* that grows with the font size, so that the width of a text is the sum   *)
(* of the widths of its characters.                                        *)
(***************************************************************************)

\* ImageFont.load_default(): a font of one size, whatever size was asked for
DefaultFont == [face |-> "default", size |-> 10]

\* MemeEngine._load_font: ImageFont.truetype("arial.ttf", size=size), or
\* ImageFont.load_default() when that raises
load_font(size, arial) ==
    IF arial THEN [face |-> "arial", size |-> size] ELSE DefaultFont

\* the advance of one character: "W" is wide, "i" and the blank are narrow
CharWidth(c, font_obj) ==
    CASE c = "W" -> font_obj.size
      [] c \in {"i", " "} -> font_obj.size \div 4
      [] OTHER -> font_obj.size \div 2

RECURSIVE TextWidth(_, _)
\* w_box = draw.textbbox((0, 0), s, font=font_obj); w_box[2] - w_box[0]
TextWidth(s, font_obj) ==
    IF s = <<>> THEN 0 ELSE CharWidth(Head(s), font_obj) + TextWidth(Tail(s), font_obj)

\* draw.textbbox((0, 0), "Ay", font=font)[3]
LineHeight(font_obj) == font_obj.size

\* s.split(): the maximal runs of characters that are not whitespace, as a
\* recursive function, whose argument is a value when it is applied
SplitWordsF[s \in Seq(STRING)] ==
    LET t == LStrip(s, Whitespace)
        ends == {i \in 1..Len(t) : t[i] \in Whitespace}
        n == IF ends = {} THEN Len(t) + 1 ELSE CHOOSE i \in ends : \A j \in ends : i <= j
    IN  IF t = <<>>
        THEN <<>>
        ELSE <<SubSeq(t, 1, n - 1)>> \o SplitWordsF[SubSeq(t, n, Len(t))]

\* s.split()
SplitWords(s) == SplitWordsF[s]

RECURSIVE Join(_)
\* " ".join(words)
Join(words) ==
    IF words = <<>>
    THEN <<>>
    ELSE IF Len(words) = 1
    THEN words[1]
    ELSE words[1] \o <<" ">> \o Join(Tail(words))

RECURSIVE WrapLoopDropsWide(_, _, _, _, _)
\* a word that does not fit on a line of its own is left out: a mutant of
\* WrapLoop
WrapLoopDropsWide(words, current, lines, font_obj, max_w) ==
    IF words = <<>>
    THEN IF current # <<>> THEN Append(lines, Join(current)) ELSE lines
    ELSE LET w == Head(words)
             candidate == IF current # <<>> THEN Join(Append(current, w)) ELSE w
             closed == IF current # <<>> THEN Append(lines, Join(current)) ELSE lines
         IN  IF TextWidth(candidate, font_obj) <= max_w
             THEN WrapLoopDropsWide(Tail(words), Append(current, w), lines, font_obj, max_w)
             ELSE IF TextWidth(w, font_obj) <= max_w
             THEN WrapLoopDropsWide(Tail(words), <<w>>, closed, font_obj, max_w)
             ELSE WrapLoopDropsWide(Tail(words), <<>>, closed, font_obj, max_w)

RECURSIVE WrapLoopStrict(_, _, _, _, _)
\* a candidate exactly as wide as the max width is refused: a mutant of WrapLoop
WrapLoopStrict(words, current, lines, font_obj, max_w) ==
    IF words = <<>>
    THEN IF current # <<>> THEN Append(lines, Join(current)) ELSE lines
    ELSE LET w == Head(words)
             candidate == IF current # <<>> THEN Join(Append(current, w)) ELSE w
         IN  IF TextWidth(candidate, font_obj) < max_w
             THEN WrapLoopStrict(Tail(words), Append(current, w), lines, font_obj, max_w)
             ELSE WrapLoopStrict(Tail(words), <<w>>,
                                 IF current # <<>> THEN Append(lines, Join(current)) ELSE lines,
                                 font_obj, max_w)

\* wrap_text from "for w in words" on, with the locals current and lines, as a
\* recursive function, whose arguments are values when it is applied
WrapLoopF[words \in Seq(Seq(STRING)), current \in Seq(Seq(STRING)),
          lines \in Seq(Seq(STRING)), font_obj \in [face : STRING, size : Int],
          max_w \in Int] ==
    IF words = <<>>
    THEN IF current # <<>> THEN Append(lines, Join(current)) ELSE lines
    ELSE LET w == Head(words)
             candidate == IF current # <<>> THEN Join(Append(current, w)) ELSE w
         IN  IF TextWidth(candidate, font_obj) <= max_w
             THEN WrapLoopF[Tail(words), Append(current, w), lines, font_obj, max_w]
             ELSE WrapLoopF[Tail(words), <<w>>,
                            IF current # <<>> THEN Append(lines, Join(current)) ELSE lines,
                            font_obj, max_w]

\* the loop of wrap_text and its final append
WrapLoop(words, current, lines, font_obj, max_w) ==
    WrapLoopF[words, current, lines, font_obj, max_w]

\* wrap_text(s, font_obj, max_w)
wrap_text(s, font_obj, max_w) == WrapLoop(SplitWords(s), <<>>, <<>>, font_obj, max_w)

\* int(x) of the float num / den, den > 0: truncation towards zero
IntTrunc(num, den) == IF num >= 0 THEN num \div den ELSE -((-num) \div den)

\* the image enlarged to the width asked for: a mutant of Scaled, for a ratio
\* of width / img.width without min(1, ...)
ScaledUp(x, width, img_width) == {IntTrunc(x * width, img_width)}

\* the values int(x * ratio) can take for ratio = min(1, width / img.width):
\* x when the ratio is 1; otherwise the truncated product, and, when the exact
\* product is a whole number, also the number below it, which the rounding of
\* the float quotient and product can land on (int(49 * (1 / 49)) is 0)
Scaled(x, width, img_width) ==
    IF width >= img_width
    THEN {x}
    ELSE IF x * width > 0 /\ (x * width) % img_width = 0
    THEN {(x * width) \div img_width, (x * width) \div img_width - 1}
    ELSE {IntTrunc(x * width, img_width)}

padding == 20

MemeImages ==
    { [w |-> 200, h |-> 150], [w |-> 200, h |-> 100], [w |-> 1000, h |-> 400],
      [w |-> 1200, h |-> 1200], [w |-> 49, h |-> 300], [w |-> 49, h |-> 120],
      [w |-> 45, h |-> 400], [w |-> 30, h |-> 130],
      [w |-> 30, h |-> 300], [w |-> 5000, h |-> 5] }

MemeWidths == {500, 100, 1, 0}

MemeTexts ==
    { <<"W", "i">>,
      <<"i", " ", "i", " ", "i", " ", "i", " ", "i", " ", "i", " ", "i", " ", "i", " ",
        "i", " ", "i", " ", "i", " ", "i">>,
      <<"W", "i", " ", "W", "i", " ", "W", "i", " ", "W", "i">>,
      <<"W", "W", "W", "W", "W", "W", "W", "W", "W", "W", "W", "W", "W", "W", " ", "i">> }

MemeAuthors == { <<"i">>, <<"i", " ", "W">> }

InitMeme ==
    /\ IdleApps
    /\ mEnv \in [pillow : BOOLEAN, decodable : BOOLEAN, arial : BOOLEAN]
    /\ \E img \in MemeImages, text \in MemeTexts, author \in MemeAuthors,
          width \in MemeWidths :
          mArgs = [srcW |-> img.w, srcH |-> img.h, text |-> text, author |-> author,
                   width |-> width]
    /\ mPc = "start"
    /\ mImg = [w |-> 0, h |-> 0]
    /\ mFontSize = 0
    /\ mFont = NoFont
    /\ mLayout = Unbound
    /\ mIter = 0
    /\ mOut = [saved |-> FALSE]
    /\ mResult = NoResult
    /\ IdleFacade
    /\ IdleText
    /\ IdleRt
    /\ IdleCsv
    /\ IdleDocs
    /\ IdleWrap

\* if Image is None: raise RuntimeError; try: img = Image.open(img_path)
\* except Exception: raise FileNotFoundError(f"Image not found: {img_path}")
MemeOpen ==
    /\ mPc = "start"
    /\ IF ~mEnv.pillow
       THEN /\ mResult' = [kind |-> "RuntimeError", msg |-> "Pillow is required"]
            /\ mPc' = "done"
            /\ mImg' = mImg
       ELSE IF ~mEnv.decodable
       THEN /\ mResult' = [kind |-> "FileNotFoundError", msg |-> "Image not found"]
            /\ mPc' = "done"
            /\ mImg' = mImg
       ELSE /\ mResult' = mResult
            /\ mPc' = "resize"
            /\ mImg' = [w |-> mArgs.srcW, h |-> mArgs.srcH]
    /\ UNCHANGED <<mEnv, mArgs, mFontSize, mFont, mLayout, mIter, mOut>>
    /\ UNCHANGED notMeme

\* ratio = min(1, width / img.width); new_size = (int(img.width * ratio),
\* int(img.height * ratio)); img = img.resize(new_size), which raises
\* ValueError for a size with a side below 1; then font_size = min(40,
\* int(img.height / 10)) and font = None
MemeResize ==
    /\ mPc = "resize"
    /\ \E nw \in Scaled(mImg.w, mArgs.width, mImg.w),
          nh \in Scaled(mImg.h, mArgs.width, mImg.w) :
          IF nw < 1 \/ nh < 1
          THEN /\ mResult' = [kind |-> "ValueError", msg |-> "height and width must be > 0"]
               /\ mPc' = "done"
               /\ UNCHANGED <<mImg, mFontSize>>
          ELSE /\ mImg' = [w |-> nw, h |-> nh]
               /\ mFontSize' = Min(40, nh \div 10)
               /\ mPc' = "font"
               /\ mResult' = mResult
    /\ mFont' = NoFont
    /\ UNCHANGED <<mEnv, mArgs, mLayout, mIter, mOut>>
    /\ UNCHANGED notMeme

\* a rejected size lowered by 1 instead of 2: a mutant of MemeFontStep
MemeFontStepByOne ==
    /\ mPc = "font"
    /\ mFontSize > 10
    /\ LET font == load_font(mFontSize, mEnv.arial)
           max_width == mImg.w - 2 * padding
           body_lines == wrap_text(<<"\"">> \o mArgs.text \o <<"\"">>, font, max_width)
           author_lines == wrap_text(<<"-", " ">> \o mArgs.author, font, max_width)
           line_height == LineHeight(font)
           total_h == (Len(body_lines) + Len(author_lines)) * (line_height + 4)
       IN  /\ mFont' = font
           /\ mLayout' = [bound |-> TRUE, body_lines |-> body_lines,
                          author_lines |-> author_lines, line_height |-> line_height]
           /\ IF 2 * total_h < mImg.h
              THEN mPc' = "compose" /\ mFontSize' = mFontSize
              ELSE mPc' = "font" /\ mFontSize' = mFontSize - 1
    /\ mIter' = mIter + 1
    /\ UNCHANGED <<mEnv, mArgs, mImg, mOut, mResult>>
    /\ UNCHANGED notMeme

\* one iteration of "while font_size > 10": load the font, wrap the body and
\* the author line, measure; break if the text takes less than half the
\* height of the image, else font_size -= 2
MemeFontStep ==
    /\ mPc = "font"
    /\ mFontSize > 10
    /\ LET font == load_font(mFontSize, mEnv.arial)
           max_width == mImg.w - 2 * padding
           body_lines == wrap_text(<<"\"">> \o mArgs.text \o <<"\"">>, font, max_width)
           author_lines == wrap_text(<<"-", " ">> \o mArgs.author, font, max_width)
           line_height == LineHeight(font)
           total_h == (Len(body_lines) + Len(author_lines)) * (line_height + 4)
       IN  /\ mFont' = font
           /\ mLayout' = [bound |-> TRUE, body_lines |-> body_lines,
                          author_lines |-> author_lines, line_height |-> line_height]
           /\ IF 2 * total_h < mImg.h
              THEN mPc' = "compose" /\ mFontSize' = mFontSize
              ELSE mPc' = "font" /\ mFontSize' = mFontSize - 2
    /\ mIter' = mIter + 1
    /\ UNCHANGED <<mEnv, mArgs, mImg, mOut, mResult>>
    /\ UNCHANGED notMeme

\* the condition of "while font_size > 10" is false: the loop is left
MemeFontExit ==
    /\ mPc = "font"
    /\ mFontSize <= 10
    /\ mPc' = "compose"
    /\ UNCHANGED <<mEnv, mArgs, mImg, mFontSize, mFont, mLayout, mIter, mOut, mResult>>
    /\ UNCHANGED notMeme

\* lines = body_lines + [""] + author_lines, which raises UnboundLocalError
\* when the loop body never ran; total_h, y_start, the lines drawn, img.save
MemeCompose ==
    /\ mPc = "compose"
    /\ IF ~mLayout.bound
       THEN /\ mResult' = [kind |-> "UnboundLocalError", msg |-> "body_lines"]
            /\ mOut' = mOut
       ELSE LET lines == mLayout.body_lines \o << <<>> >> \o mLayout.author_lines
                total_h == Len(lines) * (mLayout.line_height + 4)
            IN  /\ mOut' = [saved |-> TRUE, w |-> mImg.w, h |-> mImg.h,
                            lines |-> lines, font |-> mFont,
                            y_start |-> IntTrunc(6 * mImg.h - 10 * (total_h \div 2), 10)]
                /\ mResult' = [kind |-> "ok"]
    /\ mPc' = "done"
    /\ UNCHANGED <<mEnv, mArgs, mImg, mFontSize, mFont, mLayout, mIter>>
    /\ UNCHANGED notMeme

NextMeme ==
    \/ MemeOpen
    \/ MemeResize
    \/ MemeFontStep
    \/ MemeFontExit
    \/ MemeCompose

SpecMeme == InitMeme /\ [][NextMeme]_vars

(***************************************************************************)
(* wrap_text on its own, applied to every short text over a wide letter, a *)
(* narrow letter and the blank, for two fonts and a range of widths.       *)
(***************************************************************************)

MaxWrapLen == 5

WrapTexts ==
    Strs({"W", "i", " "}, MaxWrapLen)
        \cup { <<"W", "\t", "i", "\n", "i">>,
               <<"i", " ", "i", " ", "i", " ", "W", " ", "i", " ", "i">> }

WrapFonts == {[face |-> "arial", size |-> 12], DefaultFont}

WrapWidths == {-5, 0, 3, 6, 12, 18, 30}

InitWrap ==
    /\ IdleApps
    /\ wArgs \in [s : WrapTexts, font_obj : WrapFonts, max_w : WrapWidths]
    /\ wPc = "start"
    /\ wLines = <<>>
    /\ IdleFacade
    /\ IdleText
    /\ IdleRt
    /\ IdleCsv
    /\ IdleDocs
    /\ IdleMeme

\* wrap_text(s, font_obj, max_w) is called and returns lines
WrapCall ==
    /\ wPc = "start"
    /\ wLines' = wrap_text(wArgs.s, wArgs.font_obj, wArgs.max_w)
    /\ wPc' = "done"
    /\ UNCHANGED wArgs
    /\ UNCHANGED notWrap

NextWrap == WrapCall

SpecWrap == InitWrap /\ [][NextWrap]_vars

(***************************************************************************)
(* Claims about make_meme and wrap_text.                                   *)
(***************************************************************************)

\* C17: for every decodable image and every width, make_meme reaches the point
\* where the lines are composed with body_lines, author_lines, line_height and
\* font bound, images whose starting font size is 10 or less included, and
\* does not raise there.
C17_FontSearchBindsItsResults ==
    /\ mPc = "compose" => (mLayout.bound /\ mFont # NoFont)
    /\ mResult.kind # "UnboundLocalError"

\* C17 for the images the loop body runs on: a resized height of 110 or more
C17_HoldsFromHeight110 ==
    /\ (mPc = "compose" /\ mImg.h >= 110) => (mLayout.bound /\ mFont # NoFont)
    /\ mResult.kind = "UnboundLocalError" => mImg.h < 110

\* C18: the image is never enlarged: its width after the resize is at most the
\* width asked for, it keeps its size when the source is no wider than that (a
\* source 200 wide with width 500 is saved 200 wide), and otherwise width and
\* height are both the source's scaled by width / source width, truncated.
C18_NeverUpscales ==
    (mPc \in {"font", "compose"} \/ (mPc = "done" /\ mResult.kind = "ok")) =>
        /\ mImg.w <= mArgs.width
        /\ mArgs.srcW <= mArgs.width => mImg = [w |-> mArgs.srcW, h |-> mArgs.srcH]
        /\ mArgs.srcW > mArgs.width =>
              /\ mImg.w * mArgs.srcW <= mArgs.srcW * mArgs.width
              /\ mArgs.srcW * mArgs.width <= (mImg.w + 1) * mArgs.srcW
              /\ mImg.h * mArgs.srcW <= mArgs.srcH * mArgs.width
              /\ mArgs.srcH * mArgs.width <= (mImg.h + 1) * mArgs.srcW
        /\ mOut.saved => (mOut.w = mImg.w /\ mOut.h = mImg.h)

\* C18 witness: a source 200 wide has been saved 200 wide for width 500
C18_Witness ==
    /\ mPc = "done"
    /\ mArgs.srcW = 200
    /\ mArgs.width = 500
    /\ mOut.saved
    /\ mOut.w = 200

\* the whitespace-separated words of s: its maximal runs of characters that are
\* not whitespace, in order of position
WordsOf(s) ==
    LET runs == {r \in (1..Len(s)) \X (1..Len(s)) :
                    /\ r[1] <= r[2]
                    /\ \A i \in r[1]..r[2] : s[i] \notin Whitespace
                    /\ r[1] = 1 \/ s[r[1] - 1] \in Whitespace
                    /\ r[2] = Len(s) \/ s[r[2] + 1] \in Whitespace}
        nth(k) == CHOOSE r \in runs : Cardinality({q \in runs : q[1] <= r[1]}) = k
    IN  [k \in 1..Cardinality(runs) |-> SubSeq(s, nth(k)[1], nth(k)[2])]

RECURSIVE Flatten(_)
\* the members of the sequences of a sequence, in order
Flatten(seqs) == IF seqs = <<>> THEN <<>> ELSE Head(seqs) \o Flatten(Tail(seqs))

\* C19: the words of the lines wrap_text returns, read line by line, are the
\* whitespace-separated words of the text, in order, for every text and every
\* max width, zero and negative widths included; no line is empty; a word
\* wider than the max width is whole and alone on its line.
C19_WrapKeepsEveryWord ==
    wPc = "done" =>
        /\ Flatten([k \in 1..Len(wLines) |-> WordsOf(wLines[k])]) = WordsOf(wArgs.s)
        /\ \A k \in 1..Len(wLines) :
              /\ wLines[k] # <<>>
              /\ \A i \in 1..Len(WordsOf(wLines[k])) :
                    TextWidth(WordsOf(wLines[k])[i], wArgs.font_obj) > wArgs.max_w =>
                        wLines[k] = WordsOf(wLines[k])[i]
        /\ \A i \in 1..Len(WordsOf(wArgs.s)) :
              TextWidth(WordsOf(wArgs.s)[i], wArgs.font_obj) > wArgs.max_w =>
                  \E k \in 1..Len(wLines) : wLines[k] = WordsOf(wArgs.s)[i]

\* C19 witness: a word wider than the max width came back alone on its line,
\* the next word on the line after it
C19_Witness ==
    /\ wPc = "done"
    /\ wArgs.s = <<"W", "W", " ", "i">>
    /\ wArgs.max_w = 18
    /\ wArgs.font_obj.size = 12
    /\ wLines = << <<"W", "W">>, <<"i">> >>

(***************************************************************************)
(* Ingestor.parse called twice on the same file by a caller that may       *)
(* change the list it got from the first call.  The call runs the selected *)
(* parser; the list it returns is the parser's list object quotes, so what *)
(* the caller does to it shows through the parser's name until the next    *)
(* call binds that name to a new list.  The files are the text files made  *)
(* of pool lines and the CSV files of up to two rows of up to two fields.  *)
(***************************************************************************)

TwicePaths == {<<"x", ".">> \o e : e \in {txt, csv, docx, pdf, <<"P", "D", "F">>}}

\* the parser's state on entry to its parse, the file and the list object aside
StartParser(ingestor) ==
    /\ IF ingestor = "TextIngestor"
       THEN /\ tPc' = "start"
            /\ tPos' = 0
            /\ tLocals' = NoLocals
            /\ tResult' = NoResult
            /\ tFault' = FALSE
            /\ UNCHANGED <<tFile, tQuotes>>
       ELSE UNCHANGED textVars
    /\ IF ingestor = "CSVIngestor"
       THEN /\ cPc' = "start"
            /\ cPos' = 0
            /\ cCols' = <<>>
            /\ cLocals' = [valid |-> FALSE]
            /\ cResult' = NoResult
            /\ cFault' = FALSE
            /\ UNCHANGED <<cFile, cImpl, cQuotes>>
       ELSE UNCHANGED csvVars
    /\ IF ingestor = "DocxIngestor"
       THEN /\ dPc' = "start"
            /\ dPos' = 0
            /\ dLocals' = NoLocals
            /\ dLog' = <<>>
            /\ dResult' = NoResult
            /\ UNCHANGED <<dLib, dFile, dQuotes>>
       ELSE UNCHANGED docxVars
    /\ IF ingestor = "PDFIngestor"
       THEN /\ pPc' = "start"
            /\ pTool' = "None"
            /\ pTmp' = FALSE
            /\ pLog' = <<>>
            /\ pPos' = 0
            /\ pLocals' = NoLocals
            /\ pFault' = "none"
            /\ pResult' = NoResult
            /\ UNCHANGED <<pWhich, pText, pQuotes>>
       ELSE UNCHANGED pdfVars

\* the parser's position, its result, and whether its environment failed it
ParserPc(ingestor) ==
    CASE ingestor = "TextIngestor" -> tPc
      [] ingestor = "CSVIngestor" -> cPc
      [] ingestor = "DocxIngestor" -> dPc
      [] ingestor = "PDFIngestor" -> pPc

ParserResult(ingestor) ==
    CASE ingestor = "TextIngestor" -> tResult
      [] ingestor = "CSVIngestor" -> cResult
      [] ingestor = "DocxIngestor" -> dResult
      [] ingestor = "PDFIngestor" -> pResult

ParserFault(ingestor) ==
    CASE ingestor = "TextIngestor" -> tFault
      [] ingestor = "CSVIngestor" -> cFault
      [] ingestor = "DocxIngestor" -> dResult.kind = "ValueError"
      [] ingestor = "PDFIngestor" -> pFault # "none"

InitTwice ==
    /\ IdleApps
    /\ fPath \in TwicePaths
    /\ fExists \in BOOLEAN
    /\ fPc = "start"
    /\ fIdx = 0
    /\ fOutcome = "none"
    /\ fInvoked = <<>>
    /\ fResult = NoResult
    /\ iCall = 1
    /\ iFirst = NoResult
    /\ iHeld = <<>>
    /\ iMutated = FALSE
    /\ iFault = FALSE
    /\ IF can_ingest("TextIngestor", fPath)
       THEN /\ tFile \in UNION {[1..k -> LinePool] : k \in 0..MaxLines}
            /\ tPc = "idle"
            /\ tPos = 0
            /\ tQuotes = <<>>
            /\ tLocals = NoLocals
            /\ tResult = NoResult
            /\ tFault = FALSE
       ELSE IdleText
    /\ IF can_ingest("CSVIngestor", fPath)
       THEN /\ cFile \in {f \in CsvFiles :
                               Len(f) <= 3 /\ \A j \in 2..Len(f) : Len(f[j]) <= 2}
            /\ cImpl \in CsvImpls
            /\ cImpl = "pandas" => \A j \in 2..Len(cFile) : Len(cFile[j]) <= Len(cFile[1])
            /\ cPc = "idle"
            /\ cPos = 0
            /\ cCols = <<>>
            /\ cQuotes = <<>>
            /\ cLocals = [valid |-> FALSE]
            /\ cResult = NoResult
            /\ cFault = FALSE
       ELSE IdleCsv
    /\ IF can_ingest("DocxIngestor", fPath)
       THEN /\ dLib \in BOOLEAN
            /\ dFile \in DocxFiles
            /\ dPc = "idle"
            /\ dPos = 0
            /\ dQuotes = <<>>
            /\ dLocals = NoLocals
            /\ dLog = <<>>
            /\ dResult = NoResult
       ELSE IdleDocx
    /\ IF can_ingest("PDFIngestor", fPath)
       THEN /\ pWhich \in SUBSET Tools
            /\ pText \in PdfFiles
            /\ pPc = "idle"
            /\ pTool = "None"
            /\ pTmp = FALSE
            /\ pLog = <<>>
            /\ pPos = 0
            /\ pQuotes = <<>>
            /\ pLocals = NoLocals
            /\ pFault = "none"
            /\ pResult = NoResult
       ELSE IdlePdf
    /\ IdleRt
    /\ IdleCaption

\* can_ingest(path) is true: ingestor.parse(path) is entered
TwiceDispatch ==
    /\ fPc = "scan"
    /\ fIdx <= Len(Ingestors)
    /\ can_ingest(Ingestors[fIdx], fPath)
    /\ fInvoked' = Append(fInvoked, Ingestors[fIdx])
    /\ fPc' = "parsing"
    /\ StartParser(Ingestors[fIdx])
    /\ UNCHANGED <<fPath, fExists, fIdx, fOutcome, fResult>>
    /\ UNCHANGED <<rtVars, memeVars, wrapVars, callerVars, appVars>>

\* return ingestor.parse(path), or except Exception as e: raise ValueError(...)
TwiceReturn ==
    /\ fPc = "parsing"
    /\ ParserPc(Ingestors[fIdx]) = "done"
    /\ LET r == ParserResult(Ingestors[fIdx])
       IN  /\ fOutcome' = r.kind
           /\ fResult' = IF r.kind = "ok"
                         THEN r
                         ELSE [kind |-> "ValueError", msg |-> "Failed to parse",
                               path |-> fPath, ingestor |-> Ingestors[fIdx],
                               cause |-> r]
    /\ fPc' = "done"
    /\ iFault' = (iFault \/ ParserFault(Ingestors[fIdx]))
    /\ UNCHANGED <<fPath, fExists, fIdx, fInvoked>>
    /\ UNCHANGED <<iCall, iFirst, iHeld, iMutated>>
    /\ UNCHANGED <<textVars, rtVars, csvVars, pdfVars, docxVars, memeVars, wrapVars, appVars>>

\* what a caller can do to a list of QuoteModel objects: append, clear, remove
\* the first, assign to a field of the first
Mutations(quotes) ==
    {Append(quotes, QuoteModel(<<"z">>, <<"z">>)), <<>>}
        \cup (IF quotes = <<>>
              THEN {}
              ELSE {Tail(quotes), [quotes EXCEPT ![1].body = <<"z">>]})

\* between the calls the caller changes the list the first call returned; the
\* parser's name quotes still refers to that list
TwiceMutate ==
    /\ iCall = 1
    /\ fPc = "done"
    /\ fResult.kind = "ok"
    /\ ~iMutated
    /\ iHeld' \in Mutations(fResult.quotes) \ {fResult.quotes}
    /\ iMutated' = TRUE
    /\ IF Ingestors[fIdx] = "TextIngestor"
       THEN tQuotes' = iHeld' /\ UNCHANGED <<tFile, tPc, tPos, tLocals, tResult, tFault>>
       ELSE UNCHANGED textVars
    /\ IF Ingestors[fIdx] = "CSVIngestor"
       THEN /\ cQuotes' = iHeld'
            /\ UNCHANGED <<cFile, cImpl, cPc, cPos, cCols, cLocals, cResult, cFault>>
       ELSE UNCHANGED csvVars
    /\ IF Ingestors[fIdx] = "DocxIngestor"
       THEN dQuotes' = iHeld' /\ UNCHANGED <<dLib, dFile, dPc, dPos, dLocals, dLog, dResult>>
       ELSE UNCHANGED docxVars
    /\ IF Ingestors[fIdx] = "PDFIngestor"
       THEN /\ pQuotes' = iHeld'
            /\ UNCHANGED <<pWhich, pText, pPc, pTool, pTmp, pLog, pPos, pLocals, pFault,
                           pResult>>
       ELSE UNCHANGED pdfVars
    /\ UNCHANGED <<iCall, iFirst, iFault>>
    /\ UNCHANGED <<facadeVars, rtVars, memeVars, wrapVars, appVars>>

\* the caller calls Ingestor.parse(path) again, the file unchanged
TwiceAgain ==
    /\ iCall = 1
    /\ fPc = "done"
    /\ iCall' = 2
    /\ iFirst' = fResult
    /\ fPc' = "start"
    /\ fIdx' = 0
    /\ fOutcome' = "none"
    /\ fResult' = NoResult
    /\ UNCHANGED <<fPath, fExists, fInvoked>>
    /\ UNCHANGED <<iHeld, iMutated, iFault>>
    /\ UNCHANGED <<textVars, rtVars, csvVars, pdfVars, docxVars, memeVars, wrapVars, appVars>>

NextTwice ==
    \/ FacadeCheckExists
    \/ FacadeSkip
    \/ TwiceDispatch
    \/ NextText
    \/ NextCsv
    \/ NextDocx
    \/ NextPdf
    \/ TwiceReturn
    \/ TwiceMutate
    \/ TwiceAgain

SpecTwice == InitTwice /\ [][NextTwice]_vars

\* C20: when Ingestor.parse is called twice on the same unchanged file, and no
\* read of the file and no run of a tool fails in either call, the second
\* call returns a sequence of records equal to the one the first call
\* returned (or raises as the first did), whatever the caller did in between
\* to the list it got from the first call.
C20_ParsingTwiceGivesEqualRecords ==
    (iCall = 2 /\ fPc = "done" /\ ~iFault) => fResult = iFirst

\* C20 witness: the second call has returned the records of the first although
\* the caller changed the first list in between
C20_Witness ==
    /\ iCall = 2
    /\ fPc = "done"
    /\ ~iFault
    /\ iMutated
    /\ fResult.kind = "ok"
    /\ fResult.quotes # <<>>
    /\ fResult = iFirst
    /\ iHeld # fResult.quotes

(***************************************************************************)
(* More claims about make_meme and wrap_text.                              *)
(***************************************************************************)

\* whether the body and the author line, wrapped for the resized image in the
\* font of the given size, take less than half the height of the image
FitsAt(size) ==
    LET font == load_font(size, mEnv.arial)
        max_width == mImg.w - 2 * padding
        body_lines == wrap_text(<<"\"">> \o mArgs.text \o <<"\"">>, font, max_width)
        author_lines == wrap_text(<<"-", " ">> \o mArgs.author, font, max_width)
    IN  2 * ((Len(body_lines) + Len(author_lines)) * (LineHeight(font) + 4)) < mImg.h

\* the sizes start, start - 2, ... above the floor, start = min(40, height / 10)
SearchSizes ==
    {s \in 11..40 : s <= Min(40, mImg.h \div 10) /\ (Min(40, mImg.h \div 10) - s) % 2 = 0}

\* the size the search is to settle on: the first that fits, else the floor
SizeToUse ==
    IF \E s \in SearchSizes : FitsAt(s)
    THEN CHOOSE s \in SearchSizes : FitsAt(s) /\ \A t \in SearchSizes : FitsAt(t) => t <= s
    ELSE 10

\* C23: the image is saved with the text wrapped and drawn in the font of the
\* first size of start, start - 2, ... at which body and author take less
\* than half the height of the image, and in the font of the floor size 10
\* when no size above the floor does.
C23_RendersAtFirstFitOrFloor ==
    (mPc = "done" /\ mOut.saved) =>
        LET font == load_font(SizeToUse, mEnv.arial)
            max_width == mImg.w - 2 * padding
        IN  /\ mOut.font = font
            /\ mOut.lines =
                   wrap_text(<<"\"">> \o mArgs.text \o <<"\"">>, font, max_width)
                       \o << <<>> >> \o wrap_text(<<"-", " ">> \o mArgs.author, font, max_width)

\* C23 where a size above the floor fits: that size is the one drawn with
C23_HoldsWhenASizeFits ==
    (mPc = "done" /\ mOut.saved /\ \E s \in SearchSizes : FitsAt(s)) =>
        mOut.font = load_font(SizeToUse, mEnv.arial)

\* C24: every line wrap_text returns that holds more than one word is no wider
\* than the max width, and every line but the last would be wider than the max
\* width with a blank and the first word of the next line added to it.
C24_WrapIsGreedyAndBounded ==
    wPc = "done" =>
        /\ \A k \in 1..Len(wLines) :
              Len(WordsOf(wLines[k])) > 1 =>
                  TextWidth(wLines[k], wArgs.font_obj) <= wArgs.max_w
        /\ \A k \in 1..(Len(wLines) - 1) :
              TextWidth(wLines[k] \o <<" ">> \o WordsOf(wLines[k + 1])[1], wArgs.font_obj)
                  > wArgs.max_w

\* C24 witness: a line of two words exactly as wide as the max width, closed
\* before a third word that would have made it wider
C24_Witness ==
    /\ wPc = "done"
    /\ wArgs.s = <<"W", " ", "i", " ", "W">>
    /\ wArgs.font_obj.size = 12
    /\ wArgs.max_w = 18
    /\ wLines = << <<"W", " ", "i">>, <<"W">> >>

(***************************************************************************)
(* The same piece of text given to the three parsers that split a line at  *)
(* a dash: as the only line of a text file, as the only paragraph of a     *)
(* document and as the only line a tool extracts from a PDF.  The parsers  *)
(* run one after the other.                                                *)
(***************************************************************************)

MaxPieceLen == 4

PieceChars == {"a", " ", "-", "\""}

InitPieces ==
    /\ IdleApps
    /\ \E x \in Strs(PieceChars, MaxPieceLen) \cup LinePool :
          /\ tFile = <<x>>
          /\ dFile = <<x>>
          /\ pText = <<x>>
    /\ tPc = "start"
    /\ tPos = 0
    /\ tQuotes = <<>>
    /\ tLocals = NoLocals
    /\ tResult = NoResult
    /\ tFault = FALSE
    /\ dLib \in BOOLEAN
    /\ dPc = "start"
    /\ dPos = 0
    /\ dQuotes = <<>>
    /\ dLocals = NoLocals
    /\ dLog = <<>>
    /\ dResult = NoResult
    /\ pWhich \in SUBSET Tools
    /\ pPc = "start"
    /\ pTool = "None"
    /\ pTmp = FALSE
    /\ pLog = <<>>
    /\ pPos = 0
    /\ pQuotes = <<>>
    /\ pLocals = NoLocals
    /\ pFault = "none"
    /\ pResult = NoResult
    /\ IdleFacade
    /\ IdleRt
    /\ IdleCsv
    /\ IdleCaption

NextPieces ==
    \/ NextText
    \/ tPc = "done" /\ NextDocx
    \/ dPc = "done" /\ NextPdf

SpecPieces == InitPieces /\ [][NextPieces]_vars

\* C25: for every piece of text, given as a line to TextIngestor, as a
\* paragraph to DocxIngestor and as an extracted line to PDFIngestor, either
\* all three skip it or all three emit one record with the same body and the
\* same author.
C25_SameRuleInThreeParsers ==
    /\ (tPc = "done" /\ dPc = "done" /\ pPc = "done"
            /\ tResult.kind = "ok" /\ dResult.kind = "ok" /\ pResult.kind = "ok") =>
          (tResult.quotes = dResult.quotes /\ dResult.quotes = pResult.quotes)
    /\ (tLocals.raw = tFile[1] /\ dLocals.raw = dFile[1] /\ dPos = 1) =>
          (tLocals.emitted = dLocals.emitted /\ tLocals.body = dLocals.body
              /\ tLocals.author = dLocals.author)
    /\ (tLocals.raw = tFile[1] /\ pLocals.raw = pText[1] /\ pPos = 1) =>
          (tLocals.emitted = pLocals.emitted /\ tLocals.body = pLocals.body
              /\ tLocals.author = pLocals.author)

\* C25 witness: the three parsers have made the same record of a quoted piece
C25_Witness ==
    /\ tFile = << <<"\"", "a", "-", "a">> >>
    /\ tPc = "done"
    /\ dPc = "done"
    /\ pPc = "done"
    /\ tResult = [kind |-> "ok", quotes |-> <<QuoteModel(<<"a">>, <<"a">>)>>]
    /\ dResult = tResult
    /\ pResult = tResult

\* C27: for a source image at least 1 wide and 1 high and a width of at least
\* 1, both sides of the size make_meme resizes to are at least 1, so the
\* resize is never refused (a 5000 x 5 source with width 500 included).
C27_ResizeNeverEmpty ==
    (mArgs.srcW >= 1 /\ mArgs.srcH >= 1 /\ mArgs.width >= 1) =>
        /\ mResult.kind # "ValueError"
        /\ mPc \in {"font", "compose"} => (mImg.w >= 1 /\ mImg.h >= 1)

\* C27 for the images that are not narrowed: they keep their size
C27_HoldsWhenNotNarrowed ==
    (mArgs.srcW >= 1 /\ mArgs.srcH >= 1 /\ mArgs.srcW <= mArgs.width) =>
        /\ mResult.kind # "ValueError"
        /\ mPc \in {"font", "compose"} => (mImg.w >= 1 /\ mImg.h >= 1)

(***************************************************************************)
(* More claims about the facade, PDFIngestor and the callers.              *)
(***************************************************************************)

\* C28: an existing file whose path holds no "." is accepted by none of the
\* four ingestors, a file named txt, csv, docx or pdf included; no parser is
\* called for it and Ingestor.parse ends with the ValueError "No available
\* ingestor for file type".
C28_NoDotNoParser ==
    (fExists /\ fPath # <<>> /\ ~HasDot(fPath)) =>
        /\ \A k \in 1..Len(Ingestors) : ~can_ingest(Ingestors[k], fPath)
        /\ fInvoked = <<>>
        /\ fPc = "done" =>
              (fResult.kind = "ValueError"
                  /\ fResult.msg = "No available ingestor for file type")

\* C28 for the paths without a "." that do not spell an extension
C28_HoldsUnlessNamedLikeAnExtension ==
    (Lower(fPath) \notin {txt, csv, docx, pdf}) => C28_NoDotNoParser

\* the runs of extraction tools a call has made, in order
ToolRuns == SelectSeq(pLog, LAMBDA e : e \in {"run pdftotext", "run mutool"})

\* C29: a call of PDFIngestor.parse runs at most one extraction tool, and
\* exactly one when it returns: pdftotext if shutil.which finds it, mutool only
\* if it does not; when the tool run fails the call raises, and the other tool
\* is not run, before or after.
C29_OneToolPerCall ==
    /\ Len(ToolRuns) <= 1
    /\ "pdftotext" \in pWhich => ToolRuns \in {<<>>, <<"run pdftotext">>}
    /\ "pdftotext" \notin pWhich => ToolRuns \in {<<>>, <<"run mutool">>}
    /\ (pPc = "done" /\ pResult.kind = "ok") => Len(ToolRuns) = 1
    /\ (pPc = "done" /\ pFault \in {"exit", "thrown"}) =>
          (pResult.kind # "ok" /\ Len(ToolRuns) = 1)

\* C29 witness: pdftotext has failed with mutool available, and the call has
\* ended in an exception without running mutool
C29_Witness ==
    /\ pWhich = Tools
    /\ pPc = "done"
    /\ pFault = "exit"
    /\ pResult.kind = "RuntimeError"
    /\ ToolRuns = <<"run pdftotext">>

\* make_meme runs on: the interpreter keeps executing the method
SpecMemeRuns == InitMeme /\ [][NextMeme]_vars /\ WF_vars(NextMeme)

\* C30: the font-size loop ends for every image and text: an iteration that
\* does not accept the size lowers it by 2 and stays in the loop, the loop
\* body runs at most 15 times, and every call of make_meme comes to its end.
C30_FontSearchTerminates ==
    /\ [](mIter <= 15)
    /\ [][(mPc = "font" /\ mFontSize > 10 /\ mPc' = "font") =>
              (mFontSize' = mFontSize - 2 /\ mIter' = mIter + 1)]_vars
    /\ [][(mPc = "font" /\ mPc' = "font") => mFontSize' < mFontSize]_vars
    /\ <>(mPc = "done")

\* C30 witness: a call has ended after 15 iterations of the loop
C30_Witness ==
    /\ mPc = "done"
    /\ mIter = 15
    /\ mFontSize <= 10

\* ---------------------------------------------------------------------------
\* load_quotes (main.py, cli.py) and the loop of setup (app.py): the callers
\* that gather the records of several quote files
\* ---------------------------------------------------------------------------

notLoad == <<facadeVars, textVars, rtVars, csvVars, pdfVars, docxVars, memeVars, wrapVars,
             callerVars, webVars>>

MaxQuoteFiles == 3

\* what Ingestor.parse returns for a quote file that parses
LoadRecords ==
    LET qa == QuoteModel(<<"a">>, <<"x">>)
        qb == QuoteModel(<<"b">>, <<"y">>)
    IN  {<<>>, <<qa>>, <<qb>>, <<qa, qb>>}

\* a quote file: whether os.path.exists finds it, and what Ingestor.parse does
\* with it (a file can be there and fail to parse, or be removed after the test)
QuoteFiles ==
    {[there |-> FALSE, parse |-> NoResult]}
        \cup {[there |-> TRUE, parse |-> [kind |-> k]] :
                 k \in {"ValueError", "RuntimeError", "FileNotFoundError"}}
        \cup {[there |-> TRUE, parse |-> [kind |-> "ok", quotes |-> q]] : q \in LoadRecords}

InitLoad ==
    /\ IdleFacade
    /\ IdleText
    /\ IdleRt
    /\ IdleCsv
    /\ IdleDocs
    /\ IdleCaption
    /\ lFiles \in UNION {[1..k -> QuoteFiles] : k \in 0..MaxQuoteFiles}
    /\ lEnc \in BOOLEAN
    /\ lPc = "loop"
    /\ lIdx = 0
    /\ lQuotes = <<>>
    /\ lLog = <<>>
    /\ lResult = NoResult
    /\ hPc = [r \in Reqs |-> "idle"]
    /\ hTmp = [r \in Reqs |-> -1]
    /\ hFiles = <<>>
    /\ hRead = [r \in Reqs |-> "none"]
    /\ hStatic = [r \in Reqs |-> "unset"]
    /\ hResult = [r \in Reqs |-> NoResult]

\* print(...) of a message that starts with a check mark or a warning sign:
\* raises UnicodeEncodeError when sys.stdout cannot encode the character
LoadPrint(msg, nextPc) ==
    IF lEnc
    THEN /\ lLog' = Append(lLog, msg)
         /\ lPc' = nextPc
         /\ lResult' = lResult
    ELSE /\ lLog' = lLog
         /\ lPc' = "done"
         /\ lResult' = [kind |-> "UnicodeEncodeError"]

\* else branch of the loop: os.path.exists(file_path) is false
LoadMissing ==
    /\ lPc = "loop"
    /\ lIdx < Len(lFiles)
    /\ ~lFiles[lIdx + 1].there
    /\ lIdx' = lIdx + 1
    /\ lQuotes' = lQuotes
    /\ LoadPrint(<<"not found", lIdx + 1>>, "loop")
    /\ UNCHANGED <<lFiles, lEnc>>
    /\ UNCHANGED notLoad

\* try branch: Ingestor.parse returns, quotes.extend, print; a print that
\* raises is caught by except Exception, whose own print raises again
LoadParsed ==
    /\ lPc = "loop"
    /\ lIdx < Len(lFiles)
    /\ lFiles[lIdx + 1].there
    /\ lFiles[lIdx + 1].parse.kind = "ok"
    /\ lIdx' = lIdx + 1
    /\ lQuotes' = lQuotes \o lFiles[lIdx + 1].parse.quotes
    /\ LoadPrint(<<"loaded", lIdx + 1>>, "loop")
    /\ UNCHANGED <<lFiles, lEnc>>
    /\ UNCHANGED notLoad

\* except Exception: Ingestor.parse raised; print the failure and go on
LoadFailed ==
    /\ lPc = "loop"
    /\ lIdx < Len(lFiles)
    /\ lFiles[lIdx + 1].there
    /\ lFiles[lIdx + 1].parse.kind # "ok"
    /\ lIdx' = lIdx + 1
    /\ lQuotes' = lQuotes
    /\ LoadPrint(<<"failed", lIdx + 1>>, "loop")
    /\ UNCHANGED <<lFiles, lEnc>>
    /\ UNCHANGED notLoad

\* return quotes
LoadReturn ==
    /\ lPc = "loop"
    /\ lIdx = Len(lFiles)
    /\ lPc' = "done"
    /\ lResult' = [kind |-> "ok", quotes |-> lQuotes]
    /\ UNCHANGED <<lFiles, lEnc, lIdx, lQuotes, lLog>>
    /\ UNCHANGED notLoad

NextLoad ==
    \/ LoadMissing
    \/ LoadParsed
    \/ LoadFailed
    \/ LoadReturn

SpecLoad == InitLoad /\ [][NextLoad]_vars

\* the records of the files that are there and parse, in list order
RecordsOfParsed ==
    Flatten([i \in 1..Len(lFiles) |->
                IF lFiles[i].there /\ lFiles[i].parse.kind = "ok"
                THEN lFiles[i].parse.quotes
                ELSE <<>>])

\* C26: when load_quotes is over it has returned the concatenation, in list
\* order, of the records of exactly the files whose Ingestor.parse succeeded,
\* and it has dealt with every file of the list: a missing file or a failed
\* parse stops nothing
C26_AggregatesEveryFileThatParses ==
    lPc = "done" =>
        /\ lResult.kind = "ok"
        /\ lResult.quotes = RecordsOfParsed
        /\ lIdx = Len(lFiles)

\* the same statement, for a sys.stdout that can encode the marks printed
C26_HoldsWhenStdoutEncodesTheMarks ==
    (lPc = "done" /\ lEnc) =>
        /\ lResult.kind = "ok"
        /\ lResult.quotes = RecordsOfParsed
        /\ lIdx = Len(lFiles)
        /\ Len(lLog) = Len(lFiles)

\* without it the first file of the list ends load_quotes, whatever the file is
C26_StopsAtFirstFileOtherwise ==
    (lPc = "done" /\ ~lEnc /\ lFiles # <<>>) =>
        /\ lResult.kind = "UnicodeEncodeError"
        /\ lIdx = 1

\* ---------------------------------------------------------------------------
\* meme_post (app.py, web.py): the handler of POST /create, served for two
\* requests at a time
\* ---------------------------------------------------------------------------

notWeb == <<facadeVars, textVars, rtVars, csvVars, pdfVars, docxVars, memeVars, wrapVars,
            callerVars, loadVars>>

\* random.randint(0, 1000000) draws the n of /tmp/tmp_<n> from 0..MaxTmpName
MaxTmpName == 1
TmpNames == 0..MaxTmpName

NoFile == [there |-> FALSE, by |-> 0, whole |-> FALSE]

OpenFailed == [kind |-> "OSError", at |-> "open"]
WriteFailed == [kind |-> "OSError", at |-> "write"]

InitWeb ==
    /\ IdleFacade
    /\ IdleText
    /\ IdleRt
    /\ IdleCsv
    /\ IdleDocs
    /\ IdleCaption
    /\ lFiles = <<>>
    /\ lEnc = TRUE
    /\ lPc = "idle"
    /\ lIdx = 0
    /\ lQuotes = <<>>
    /\ lLog = <<>>
    /\ lResult = NoResult
    /\ hPc = [r \in Reqs |-> "start"]
    /\ hTmp = [r \in Reqs |-> -1]
    /\ hFiles = [n \in TmpNames |-> NoFile]
    /\ hRead = [r \in Reqs |-> "none"]
    /\ hStatic = [r \in Reqs |-> "unset"]
    /\ hResult = [r \in Reqs |-> NoResult]

\* the validation of the form: a missing field redirects to the form
WebValidate(r) ==
    /\ hPc[r] = "start"
    /\ \E valid \in BOOLEAN :
          IF valid
          THEN /\ hPc' = [hPc EXCEPT ![r] = "fetch"]
               /\ hResult' = hResult
          ELSE /\ hPc' = [hPc EXCEPT ![r] = "done"]
               /\ hResult' = [hResult EXCEPT ![r] = [kind |-> "redirect"]]
    /\ UNCHANGED <<hTmp, hFiles, hRead, hStatic>>
    /\ UNCHANGED notWeb

\* requests.get and raise_for_status inside try / except Exception
WebFetch(r) ==
    /\ hPc[r] = "fetch"
    /\ \E fetched \in BOOLEAN :
          IF fetched
          THEN /\ hPc' = [hPc EXCEPT ![r] = "name"]
               /\ hResult' = hResult
          ELSE /\ hPc' = [hPc EXCEPT ![r] = "done"]
               /\ hResult' = [hResult EXCEPT ![r] = [kind |-> "redirect"]]
    /\ UNCHANGED <<hTmp, hFiles, hRead, hStatic>>
    /\ UNCHANGED notWeb

\* tmp_path = os.path.join("/tmp", f"tmp_{random.randint(0, 1000000)}")
WebName(r) ==
    /\ hPc[r] = "name"
    /\ \E n \in TmpNames : hTmp' = [hTmp EXCEPT ![r] = n]
    /\ hPc' = [hPc EXCEPT ![r] = "open"]
    /\ UNCHANGED <<hFiles, hRead, hStatic, hResult>>
    /\ UNCHANGED notWeb

\* open(tmp_path, "wb"): creates the file or truncates the one that is there;
\* an OSError leaves the handler, no try block is open yet
WebOpen(r) ==
    /\ hPc[r] = "open"
    /\ \E opened \in BOOLEAN :
          IF opened
          THEN /\ hFiles' = [hFiles EXCEPT ![hTmp[r]] =
                                 [there |-> TRUE, by |-> r, whole |-> FALSE]]
               /\ hPc' = [hPc EXCEPT ![r] = "write"]
               /\ hResult' = hResult
          ELSE /\ hFiles' = hFiles
               /\ hPc' = [hPc EXCEPT ![r] = "done"]
               /\ hResult' = [hResult EXCEPT ![r] = OpenFailed]
    /\ UNCHANGED <<hTmp, hRead, hStatic>>
    /\ UNCHANGED notWeb

\* f.write(res.content) and the close of the with block: the bytes go to the
\* file that was opened, which the path still names unless it was removed;
\* an OSError leaves the handler with the file in place
WebWrite(r) ==
    /\ hPc[r] = "write"
    /\ \E written \in BOOLEAN :
          IF written
          THEN /\ hFiles' = IF hFiles[hTmp[r]].there
                            THEN [hFiles EXCEPT ![hTmp[r]] =
                                     [there |-> TRUE, by |-> r, whole |-> TRUE]]
                            ELSE hFiles
               /\ hPc' = [hPc EXCEPT ![r] = "make"]
               /\ hResult' = hResult
          ELSE /\ hFiles' = hFiles
               /\ hPc' = [hPc EXCEPT ![r] = "done"]
               /\ hResult' = [hResult EXCEPT ![r] = WriteFailed]
    /\ UNCHANGED <<hTmp, hRead, hStatic>>
    /\ UNCHANGED notWeb

\* what Image.open(tmp_path) of make_meme finds at the path
FoundAt(r) ==
    IF ~hFiles[hTmp[r]].there THEN "missing"
    ELSE IF hFiles[hTmp[r]].by = r /\ hFiles[hTmp[r]].whole THEN "own"
    ELSE "other"

\* try: path = meme.make_meme(tmp_path, body, author); static_path = ...
\* except Exception: static_path = None
WebMake(r) ==
    /\ hPc[r] = "make"
    /\ hRead' = [hRead EXCEPT ![r] = FoundAt(r)]
    /\ \E made \in BOOLEAN :
          hStatic' = [hStatic EXCEPT ![r] =
                         IF made /\ FoundAt(r) # "missing" THEN "path" ELSE "None"]
    /\ hPc' = [hPc EXCEPT ![r] = "finally"]
    /\ UNCHANGED <<hTmp, hFiles, hResult>>
    /\ UNCHANGED notWeb

\* finally: try: os.remove(tmp_path) except Exception: pass
WebFinally(r) ==
    /\ hPc[r] = "finally"
    /\ hFiles' = [hFiles EXCEPT ![hTmp[r]] = NoFile]
    /\ hPc' = [hPc EXCEPT ![r] = "respond"]
    /\ UNCHANGED <<hTmp, hRead, hStatic, hResult>>
    /\ UNCHANGED notWeb

\* if not static_path: return redirect(...); return render_template(...)
WebRespond(r) ==
    /\ hPc[r] = "respond"
    /\ hResult' = [hResult EXCEPT ![r] =
                       IF hStatic[r] = "None" THEN [kind |-> "redirect"]
                                              ELSE [kind |-> "render"]]
    /\ hPc' = [hPc EXCEPT ![r] = "done"]
    /\ UNCHANGED <<hTmp, hFiles, hRead, hStatic>>
    /\ UNCHANGED notWeb

NextWeb ==
    \E r \in Reqs :
        \/ WebValidate(r)
        \/ WebFetch(r)
        \/ WebName(r)
        \/ WebOpen(r)
        \/ WebWrite(r)
        \/ WebMake(r)
        \/ WebFinally(r)
        \/ WebRespond(r)

SpecWeb == InitWeb /\ [][NextWeb]_vars

\* the request created its temporary file: open(tmp_path, "wb") returned
CreatedTmp(r) == hTmp[r] \in TmpNames /\ hPc[r] \notin {"name", "open"} /\ hResult[r] # OpenFailed

\* the temporary file of a request is still at its path
TmpLeft(r) == hFiles[hTmp[r]].there /\ hFiles[hTmp[r]].by = r

\* C21: a request of meme_post that has created its temporary file and has
\* ended, by success of make_meme, by failure of make_meme or by failure of
\* the write of the downloaded bytes, has left no temporary file behind
C21_TmpRemovedOnEveryExit ==
    \A r \in Reqs : (hPc[r] = "done" /\ CreatedTmp(r)) => ~TmpLeft(r)

\* the same statement, for the requests that reached make_meme
C21_HoldsOnceMakeMemeIsReached ==
    \A r \in Reqs : (hPc[r] = "done" /\ hRead[r] # "none") => ~TmpLeft(r)

\* a failed write leaves the file, unless the other request has the same path
C21_WriteFailureLeavesTheFile ==
    \A r \in Reqs :
        (hPc[r] = "done" /\ hResult[r] = WriteFailed /\ \A q \in Reqs \ {r} : hTmp[q] # hTmp[r])
            => TmpLeft(r)

\* C22: of two requests served at a time each has its own temporary file:
\* when a request is about to pass tmp_path to make_meme, the file is there
\* and holds the bytes this request wrote, whatever the other request did
C22_EachRequestHasItsOwnTmp ==
    \A r \in Reqs : hPc[r] = "make" => FoundAt(r) = "own"

\* the same statement, for requests that drew different names
C22_HoldsWhenNamesDiffer ==
    \A r \in Reqs :
        (hPc[r] = "make" /\ \A q \in Reqs \ {r} : hTmp[q] # hTmp[r]) => FoundAt(r) = "own"

====
